---- MODULE Spec2Model ----
(***************************************************************************)
(* Verification model of the Convatile-SDK conversion pipeline.            *)
(*                                                                         *)
(* Spec models one caller driving convert() (src/src/core/engine.ts): the  *)
(* call's arguments are chosen in Init, the call then moves through        *)
(* validation, format detection, parse dispatch, the parser call, the      *)
(* render fan-out (one promise chain per requested format) and the         *)
(* Promise.all join.  After a call has resolved the caller may issue one   *)
(* follow-up call with the same input and options that requests a single   *)
(* format, which is what the independence property compares against.       *)
(*                                                                         *)
(* DetectSpec models a caller of the exported detectInputFormat.           *)
(*                                                                         *)
(* Text is a sequence of one-character strings, a Buffer a sequence of     *)
(* byte values.  JavaScript "undefined" is the string "undefined" where a  *)
(* string is expected and a record of kind "undefined" elsewhere.          *)
(***************************************************************************)
EXTENDS Integers, Sequences, FiniteSets, TLC

VARIABLES
    input,        \* first argument of convert
    options,      \* second argument of convert
    defaultFile,  \* whether templates/default.html exists on disk
    callNo,       \* 1: the caller's first call, 2: the follow-up call
    prev,         \* result map the caller kept from the first call
    phase,        \* position of convert in its body
    inputFormat,  \* const inputFormat (engine.ts:48)
    ast,          \* const ast (engine.ts:52)
    next,         \* index of the next iteration of the for loop (engine.ts:58)
    tasks,        \* conversions[] : one promise chain per requested format
    joined,       \* state of the Promise.all promise (engine.ts:85)
    result,       \* const result: ConvertResult (engine.ts:55)
    outcome,      \* how the promise returned by convert settled
    calls,        \* how often each collaborator has been invoked by this call
    detInput,     \* argument of detectInputFormat when it is called on its own
    detected,     \* what the calls of detectInputFormat(detInput) returned, in order
    parseFn,      \* the parser a caller invoked directly, "none" before the call
    parseArg,     \* the argument of that parser call
    parseResult,  \* what the parser's promise settled with
    escTree,      \* the tree handed to the html renderer's astToHtml
    escOut,       \* the content astToHtml returned for it
    wrapper,      \* the single-format wrapper call that awaits the convert call
    scan,         \* the line scan of extracted text: its locals and its position
    norm,         \* the loop of detectHeadings: its lines, position and output
    reg,          \* a TemplateRegistry instance: its map and its register calls
    subst         \* a call of applyTemplate: its arguments and the string it is building

\* the variables of a convert call
convertVars == <<input, options, defaultFile, callNo, prev, phase, inputFormat, ast,
                 next, tasks, joined, result, outcome, calls>>

\* the variables of a direct detectInputFormat call
detectVars == <<detInput, detected>>

\* the variables of a direct parser call
parseVars == <<parseFn, parseArg, parseResult>>

\* the variables of a direct astToHtml call
escapeVars == <<escTree, escOut>>

\* what a convert call, a detectInputFormat call, a parser call and an
\* astToHtml call leave alone
outsideConvert == <<detectVars, parseVars, escapeVars, wrapper, scan, norm, reg, subst>>

outsideDetect == <<convertVars, parseVars, escapeVars, wrapper, scan, norm, reg, subst>>

outsideParse == <<convertVars, detectVars, escapeVars, wrapper, scan, norm, reg, subst>>

outsideEscape == <<convertVars, detectVars, parseVars, wrapper, scan, norm, reg, subst>>

\* what the return of a wrapper leaves alone
outsideWrapper == <<convertVars, detectVars, parseVars, escapeVars, scan, norm, reg, subst>>

\* what a step of the line scan leaves alone
outsideScan == <<convertVars, detectVars, parseVars, escapeVars, wrapper, norm, reg, subst>>

\* what a step on norm leaves alone
outsideNorm == <<convertVars, detectVars, parseVars, escapeVars, wrapper, scan, reg, subst>>

\* what a step on reg leaves alone
outsideReg == <<convertVars, detectVars, parseVars, escapeVars, wrapper, scan, norm, subst>>

\* what a step on subst leaves alone
outsideSubst == <<convertVars, detectVars, parseVars, escapeVars, wrapper, scan, norm, reg>>

vars == <<convertVars, outsideConvert>>

(***************************************************************************)
(* Bounds of the model.                                                    *)
(***************************************************************************)
\* longest requested-format list that is enumerated exhaustively
MaxFormats == 2

\* number of fragments a detection input is put together from
MaxFragments == 3

\* number of times the caller repeats a detectInputFormat call
MaxDetectCalls == 2

(***************************************************************************)
(* Program constants.                                                      *)
(***************************************************************************)
VALID_FORMATS == <<"md", "pdf", "docx", "html">>

VALID_INPUT_FORMATS == <<"text", "md", "docx", "pdf", "html">>

Range(s) == {s[i] : i \in 1..Len(s)}

Includes(arr, x) == x \in Range(arr)

OutputFormats == Range(VALID_FORMATS)

(***************************************************************************)
(* Errors (utils/errors.ts).  tag is the subclass's own field: field for   *)
(* ValidationError, invalidFormat for FormatError, format for              *)
(* ConversionError, templateId for TemplateError.  cause is the message of  *)
(* the Error passed as cause, "" when the constructor got none.            *)
(***************************************************************************)
MkError(kind, code, message, tag, cause) ==
    [kind |-> kind, code |-> code, message |-> message, tag |-> tag, cause |-> cause]

NoError == MkError("none", "", "", "", "")

ValidationError(message, field) ==
    MkError("ValidationError", "VALIDATION_ERROR", message, field, "")

FormatError(invalidFormat) ==
    MkError("FormatError", "FORMAT_ERROR", "Invalid output format", invalidFormat, "")

ParseError(message, cause) ==
    MkError("ParseError", "PARSE_ERROR", message, "", cause)

ConversionError(message, format, cause) ==
    MkError("ConversionError", "CONVERSION_ERROR", message, format, cause)

TemplateError(message, templateId) ==
    MkError("TemplateError", "TEMPLATE_ERROR", message, templateId, "")

\* a raw JavaScript exception (TypeError ...) thrown inside a renderer
RawError(message) == MkError("TypeError", "", message, "", "")

(***************************************************************************)
(* Characters.  Printable ASCII is modelled exactly; the tables follow the *)
(* ECMAScript definitions used by String.prototype.trim, the regex classes *)
(* [a-z], [a-z0-9], \b (word characters) and the /i flag.                  *)
(***************************************************************************)
LowerLetters == <<"a", "b", "c", "d", "e", "f", "g", "h", "i", "j", "k", "l", "m", "n", "o", "p", "q", "r", "s", "t", "u", "v", "w", "x", "y", "z">>

UpperLetters == <<"A", "B", "C", "D", "E", "F", "G", "H", "I", "J", "K", "L", "M", "N", "O", "P", "Q", "R", "S", "T", "U", "V", "W", "X", "Y", "Z">>

DigitChars == {"0", "1", "2", "3", "4", "5", "6", "7", "8", "9"}

\* code points 32..126 in order (the grave accent, code 96, is written GRAVE)
PrintableAscii == <<
    " ", "!", "\"", "#", "$", "%", "&", "'", "(", ")", "*", "+",
    ",", "-", ".", "/", "0", "1", "2", "3", "4", "5", "6", "7",
    "8", "9", ":", ";", "<", "=", ">", "?", "@", "A", "B", "C",
    "D", "E", "F", "G", "H", "I", "J", "K", "L", "M", "N", "O",
    "P", "Q", "R", "S", "T", "U", "V", "W", "X", "Y", "Z", "[",
    "\\", "]", "^", "_", "GRAVE", "a", "b", "c", "d", "e", "f", "g",
    "h", "i", "j", "k", "l", "m", "n", "o", "p", "q", "r", "s",
    "t", "u", "v", "w", "x", "y", "z", "{", "|", "}", "~">>

IsLetter(c) == c \in Range(LowerLetters) \cup Range(UpperLetters)

IsAlnum(c) == IsLetter(c) \/ c \in DigitChars

\* \w of the regex engine
IsWordChar(c) == IsAlnum(c) \/ c = "_"

IsWhitespace(c) == c \in {" ", "\t", "\n", "\r"}

ToLowerChar(c) ==
    IF c \in Range(UpperLetters)
    THEN LowerLetters[CHOOSE i \in 1..Len(UpperLetters) : UpperLetters[i] = c]
    ELSE c

ToLowerCase(s) == [i \in 1..Len(s) |-> ToLowerChar(s[i])]

\* The character one byte decodes to: ASCII bytes decode
\* to their character, tab/newline/return to the control character, every
\* other byte to a character that is neither whitespace nor a word character
\* (a control character or U+FFFD).
CharOfByte(b) ==
    IF b >= 32 /\ b <= 126 THEN PrintableAscii[b - 31]
    ELSE IF b = 9 THEN "\t"
    ELSE IF b = 10 THEN "\n"
    ELSE IF b = 13 THEN "\r"
    ELSE "\\uFFFD"

\* buffer.toString('utf8')
BufferToString(bytes) == [i \in 1..Len(bytes) |-> CharOfByte(bytes[i])]

\* buffer.toString('ascii'): Node clears the high bit of every byte first
BufferToAscii(bytes) == [i \in 1..Len(bytes) |-> CharOfByte(bytes[i] % 128)]

(***************************************************************************)
(* String helpers (String.prototype.startsWith, trim, includes).           *)
(***************************************************************************)
StartsWith(s, p) ==
    /\ Len(s) >= Len(p)
    /\ \A i \in 1..Len(p) : s[i] = p[i]

\* s.includes(p)
Contains(s, p) ==
    \E k \in 0..(Len(s) - Len(p)) : \A i \in 1..Len(p) : s[k + i] = p[i]

Trim(s) ==
    IF \A i \in 1..Len(s) : IsWhitespace(s[i]) THEN <<>>
    ELSE LET first == CHOOSE i \in 1..Len(s) :
                         /\ ~IsWhitespace(s[i])
                         /\ \A j \in 1..(i - 1) : IsWhitespace(s[j])
             last  == CHOOSE i \in 1..Len(s) :
                         /\ ~IsWhitespace(s[i])
                         /\ \A j \in (i + 1)..Len(s) : IsWhitespace(s[j])
         IN  SubSeq(s, first, last)

(***************************************************************************)
(* Values a caller can pass.  A value is a record                          *)
(*   [kind, text, bytes]   kind: undefined | null | number | string |      *)
(*                               buffer                                    *)
(* with text used by strings and bytes by buffers.                         *)
(***************************************************************************)
Value(kind, text, bytes) == [kind |-> kind, text |-> text, bytes |-> bytes]

StringInput(text) == Value("string", text, <<>>)

BufferInput(bytes) == Value("buffer", <<>>, bytes)

\* Buffer.isBuffer(input)
IsBuffer(v) == v.kind = "buffer"

\* typeof input === 'string'
IsString(v) == v.kind = "string"

(***************************************************************************)
(* detectInputFormat / detectStringFormat (engine.ts:94-169).              *)
(***************************************************************************)
\* /^<([a-z][a-z0-9]*)\b[^>]*>/i applied to s.  The name group is the maximal
\* run of [a-z0-9] after "<": a shorter run is followed by a word character
\* and fails \b, so backtracking finds nothing else.  nameEnd is the index of
\* the name's last character, close the index of the first ">" after it.
TagNameEnd(s) ==
    CHOOSE e \in 2..Len(s) :
        /\ \A i \in 2..e : IsAlnum(s[i])
        /\ (e = Len(s) \/ ~IsAlnum(s[e + 1]))

HtmlTagMatches(s) ==
    /\ Len(s) >= 2
    /\ s[1] = "<"
    /\ IsLetter(s[2])
    /\ LET e == TagNameEnd(s)
       IN  /\ e < Len(s)
           /\ ~IsWordChar(s[e + 1])
           /\ \E g \in (e + 1)..Len(s) : s[g] = ">"

\* match[1].toLowerCase()
HtmlTagName(s) == ToLowerCase(SubSeq(s, 2, TagNameEnd(s)))

\* match[0]
HtmlTagMatch(s) ==
    LET e == TagNameEnd(s)
        g == CHOOSE k \in (e + 1)..Len(s) :
                 /\ s[k] = ">"
                 /\ \A j \in (e + 1)..(k - 1) : s[j] # ">"
    IN  SubSeq(s, 1, g)

VoidElements ==
    { <<"b", "r">>, <<"h", "r">>, <<"i", "m", "g">>, <<"i", "n", "p", "u", "t">>,
      <<"m", "e", "t", "a">>, <<"l", "i", "n", "k">> }

\* a detector whose fallback is the InputFormat 'text'
detectStringFormat_Text(str) ==
    IF StartsWith(Trim(str), <<"<", "!", "D", "O", "C", "T", "Y", "P", "E">>)
    THEN "html"
    ELSE "text"

detectStringFormat(str) ==
    LET trimmed == Trim(str)
    IN  IF \/ StartsWith(trimmed, <<"<", "!", "D", "O", "C", "T", "Y", "P", "E">>)
           \/ StartsWith(trimmed, <<"<", "!", "d", "o", "c", "t", "y", "p", "e">>)
        THEN "html"
        ELSE IF \/ StartsWith(trimmed, <<"<", "h", "t", "m", "l">>)
                \/ StartsWith(trimmed, <<"<", "H", "T", "M", "L">>)
        THEN "html"
        ELSE IF /\ StartsWith(trimmed, <<"<">>)
                /\ ~StartsWith(trimmed, <<"<", "!", "[">>)
                /\ HtmlTagMatches(trimmed)
                /\ LET tagName == HtmlTagName(trimmed)
                       m0 == HtmlTagMatch(trimmed)
                       hasClosingTag ==
                           Contains(ToLowerCase(trimmed), <<"<", "/">> \o tagName \o <<">">>)
                       isSelfClosing == Len(m0) >= 2 /\ m0[Len(m0) - 1] = "/"
                       isVoidElement == tagName \in VoidElements
                   IN  hasClosingTag \/ isSelfClosing \/ isVoidElement
        THEN "html"
        ELSE "md"

detectInputFormat(v) ==
    IF IsBuffer(v)
    THEN IF /\ Len(v.bytes) >= 4
            /\ v.bytes[1] = 80 /\ v.bytes[2] = 75 /\ v.bytes[3] = 3 /\ v.bytes[4] = 4
         THEN "docx"
         ELSE IF /\ Len(v.bytes) >= 5
                 /\ BufferToAscii(SubSeq(v.bytes, 1, 5)) = <<"%", "P", "D", "F", "-">>
         THEN "pdf"
         ELSE detectStringFormat(BufferToString(v.bytes))
    ELSE detectStringFormat(v.text)

(***************************************************************************)
(* The arguments the model's caller chooses from.                          *)
(***************************************************************************)
UndefinedValue == Value("undefined", <<>>, <<>>)

NullValue == Value("null", <<>>, <<>>)

\* a value that is neither a string nor a Buffer
NumberValue == Value("number", <<>>, <<>>)

\* "Hi"
PlainText == <<"H", "i">>

\* "<p>x</p>"
HtmlText == <<"<", "p", ">", "x", "<", "/", "p", ">">>

\* PK\x03\x04 followed by archive data
DocxBytes == <<80, 75, 3, 4, 20>>

\* "%PDF-1"
PdfBytes == <<37, 80, 68, 70, 45, 49>>

Inputs ==
    { UndefinedValue, NullValue, NumberValue,
      StringInput(PlainText), StringInput(HtmlText),
      BufferInput(DocxBytes), BufferInput(PdfBytes) }

\* options.format: undefined, a non-array value, or an array of strings
FormatField(kind, list) == [kind |-> kind, list |-> list]

RECURSIVE SeqsOfLen(_, _)
SeqsOfLen(S, n) ==
    IF n = 0 THEN {<<>>}
    ELSE {Append(q, x) : q \in SeqsOfLen(S, n - 1), x \in S}

SeqsUpTo(S, n) == UNION {SeqsOfLen(S, k) : k \in 0..n}

\* the request of the independence property
AllFour == <<"md", "html", "pdf", "docx">>

\* what a caller may put in the list: the output formats and two strings that
\* are not output formats (includes compares with ===, so "PDF" is not "pdf")
RequestedFormats == OutputFormats \cup {"bogus", "PDF"}

FormatFields ==
    { FormatField("undefined", <<>>), FormatField("notArray", <<>>) }
    \cup { FormatField("array", l) : l \in SeqsUpTo(RequestedFormats, MaxFormats) \cup {AllFour} }

\* options.inputFormat: undefined, a member of InputFormat, or any other string
InputFormatFields == {"undefined", "md", "html", "pdf", "docx", "text", "invalid"}

\* options.metadata: undefined, null, a non-object, or a DocumentMetadata
\* object.  keywords is "undefined", "array" (a string[]) or "string" (a value
\* of the open record that is not an array).
MetadataField(kind, title, keywords) ==
    [kind |-> kind, title |-> title, keywords |-> keywords]

MetadataFields ==
    { MetadataField("undefined", "", "undefined"),
      MetadataField("null", "", "undefined"),
      MetadataField("string", "", "undefined"),
      MetadataField("object", "T", "array"),
      MetadataField("object", "T", "string") }

\* typeof options.metadata
TypeOfMetadata(m) ==
    IF m.kind = "undefined" THEN "undefined"
    ELSE IF m.kind \in {"object", "null"} THEN "object"
    ELSE m.kind

\* options.templateId: undefined, a registered html template, an unknown id
TemplateIdFields == {"undefined", "corp-html", "missing"}

Options(present, format, inFmt, metadata, templateId) ==
    [present |-> present, format |-> format, inputFormat |-> inFmt,
     metadata |-> metadata, templateId |-> templateId]

\* convert(input, undefined)
NoOptions ==
    Options(FALSE, FormatField("undefined", <<>>), "undefined",
            MetadataField("undefined", "", "undefined"), "undefined")

OptionsValues ==
    {NoOptions} \cup
    { Options(TRUE, f, i, m, t) :
        f \in FormatFields, i \in InputFormatFields,
        m \in MetadataFields, t \in TemplateIdFields }

(***************************************************************************)
(* validateInput (engine.ts:207-250): the error it throws, NoError when it *)
(* returns normally.                                                       *)
(***************************************************************************)
\* a validation loop that remembers the last element it rejects
FirstInvalidFormat_Last(list) ==
    LET i == CHOOSE k \in 1..Len(list) :
                 /\ ~Includes(VALID_FORMATS, list[k])
                 /\ \A j \in (k + 1)..Len(list) : Includes(VALID_FORMATS, list[j])
    IN  list[i]

\* the first element of the list that VALID_FORMATS does not include
FirstInvalidFormat(list) ==
    LET i == CHOOSE k \in 1..Len(list) :
                 /\ ~Includes(VALID_FORMATS, list[k])
                 /\ \A j \in 1..(k - 1) : Includes(VALID_FORMATS, list[j])
    IN  list[i]

\* validateInput without its metadata check
validateInput_NoMetadataCheck(in, opts) ==
    IF in.kind \in {"undefined", "null"}
    THEN ValidationError("Input is required", "input")
    ELSE IF ~IsString(in) /\ ~IsBuffer(in)
    THEN ValidationError("Input must be a string or Buffer", "input")
    ELSE IF ~opts.present
    THEN ValidationError("Options are required", "options")
    ELSE IF opts.format.kind # "array"
    THEN ValidationError("Format must be an array of output formats", "format")
    ELSE IF Len(opts.format.list) = 0
    THEN ValidationError("At least one output format is required", "format")
    ELSE IF \E k \in 1..Len(opts.format.list) : ~Includes(VALID_FORMATS, opts.format.list[k])
    THEN FormatError(FirstInvalidFormat(opts.format.list))
    ELSE IF opts.inputFormat # "undefined" /\ ~Includes(VALID_INPUT_FORMATS, opts.inputFormat)
    THEN ValidationError("Invalid input format", "inputFormat")
    ELSE NoError

\* validateInput reporting an invalid input format under the field "format"
validateInput_WrongField(in, opts) ==
    IF in.kind \in {"undefined", "null"}
    THEN ValidationError("Input is required", "input")
    ELSE IF ~IsString(in) /\ ~IsBuffer(in)
    THEN ValidationError("Input must be a string or Buffer", "input")
    ELSE IF ~opts.present
    THEN ValidationError("Options are required", "options")
    ELSE IF opts.format.kind # "array"
    THEN ValidationError("Format must be an array of output formats", "format")
    ELSE IF Len(opts.format.list) = 0
    THEN ValidationError("At least one output format is required", "format")
    ELSE IF \E k \in 1..Len(opts.format.list) : ~Includes(VALID_FORMATS, opts.format.list[k])
    THEN FormatError(FirstInvalidFormat(opts.format.list))
    ELSE IF opts.inputFormat # "undefined" /\ ~Includes(VALID_INPUT_FORMATS, opts.inputFormat)
    THEN ValidationError("Invalid input format", "format")
    ELSE IF opts.metadata.kind # "undefined" /\ TypeOfMetadata(opts.metadata) # "object"
    THEN ValidationError("Metadata must be an object", "metadata")
    ELSE NoError


validateInput(in, opts) ==
    IF in.kind \in {"undefined", "null"}
    THEN ValidationError("Input is required", "input")
    ELSE IF ~IsString(in) /\ ~IsBuffer(in)
    THEN ValidationError("Input must be a string or Buffer", "input")
    ELSE IF ~opts.present
    THEN ValidationError("Options are required", "options")
    ELSE IF opts.format.kind # "array"
    THEN ValidationError("Format must be an array of output formats", "format")
    ELSE IF Len(opts.format.list) = 0
    THEN ValidationError("At least one output format is required", "format")
    ELSE IF \E k \in 1..Len(opts.format.list) : ~Includes(VALID_FORMATS, opts.format.list[k])
    THEN FormatError(FirstInvalidFormat(opts.format.list))
    ELSE IF opts.inputFormat # "undefined" /\ ~Includes(VALID_INPUT_FORMATS, opts.inputFormat)
    THEN ValidationError("Invalid input format", "inputFormat")
    ELSE IF opts.metadata.kind # "undefined" /\ TypeOfMetadata(opts.metadata) # "object"
    THEN ValidationError("Metadata must be an object", "metadata")
    ELSE NoError

(***************************************************************************)
(* The Document Tree.  A root owns a sequence of block nodes; the grammars *)
(* the parsers delegate to (remark, rehype, mammoth, pdf-parse) are        *)
(* outside the repository, so a parsed document is one paragraph holding   *)
(* the text the parser was given.                                          *)
(***************************************************************************)
Root(children) == [type |-> "root", children |-> children]

EmptyRoot == Root(<<>>)

\* no tree yet (the const ast is not initialised)
NoAst == [type |-> "none", children |-> <<>>]

Paragraph(text) == [type |-> "paragraph", value |-> text]

ParseOutcome(err, tree) == [err |-> err, tree |-> tree]

\* parseMarkdown (parsers/markdown.ts): normalizeText('') is '', which remark
\* parses to an empty root
parseMarkdown(text) ==
    ParseOutcome(NoError,
                 IF Trim(text) = <<>> THEN EmptyRoot ELSE Root(<<Paragraph(Trim(text))>>))

\* parseHtml (parsers/html.ts): !html || typeof html !== 'string' gives the
\* empty root
parseHtml(html) ==
    ParseOutcome(NoError,
                 IF ~IsString(html) \/ html.text = <<>>
                 THEN EmptyRoot
                 ELSE Root(<<Paragraph(html.text)>>))

\* The codecs (mammoth, pdf-parse) read a buffer that starts with its
\* container signature and throw an Error on any other non-empty buffer.
DocxCodecReads(bytes) ==
    Len(bytes) >= 4 /\ SubSeq(bytes, 1, 4) = <<80, 75, 3, 4>>

PdfCodecReads(bytes) ==
    Len(bytes) >= 5 /\ SubSeq(bytes, 1, 5) = <<37, 80, 68, 70, 45>>

\* a parsePdf without the guard for empty and non-Buffer arguments
parsePdf_NoGuard(v) ==
    IF IsBuffer(v) /\ PdfCodecReads(v.bytes)
    THEN ParseOutcome(NoError,
                      Root(<<Paragraph(BufferToString(SubSeq(v.bytes, 6, Len(v.bytes))))>>))
    ELSE ParseOutcome(ParseError("Failed to parse PDF", "Invalid PDF structure"), NoAst)

\* parseDocx: the document's html is what follows the signature; a document
\* without html falls back to its raw text, which is empty as well
parseDocx(v) ==
    IF ~IsBuffer(v) \/ Len(v.bytes) = 0 THEN ParseOutcome(NoError, EmptyRoot)
    ELSE IF DocxCodecReads(v.bytes)
    THEN parseHtml(StringInput(BufferToString(SubSeq(v.bytes, 5, Len(v.bytes)))))
    ELSE ParseOutcome(ParseError("Failed to parse DOCX", "Can't find end of central directory"),
                      NoAst)

\* parsePdf: the document's text is what follows the signature; a document
\* without text gives the empty root
parsePdf(v) ==
    IF ~IsBuffer(v) \/ Len(v.bytes) = 0 THEN ParseOutcome(NoError, EmptyRoot)
    ELSE IF PdfCodecReads(v.bytes)
    THEN ParseOutcome(NoError,
                      IF Len(v.bytes) = 5
                      THEN EmptyRoot
                      ELSE Root(<<Paragraph(BufferToString(SubSeq(v.bytes, 6, Len(v.bytes))))>>))
    ELSE ParseOutcome(ParseError("Failed to parse PDF", "Invalid PDF structure"), NoAst)

\* parseInput without the Buffer check of its pdf case
parseInputGuard_NoPdfCheck(in, format) ==
    IF format = "docx" /\ ~IsBuffer(in)
    THEN ValidationError("DOCX input must be a Buffer", "input")
    ELSE NoError

\* parseInput (engine.ts:174-202), the part that runs before a parser is
\* called: the error it throws, NoError when it goes on to call a parser.
parseInputGuard(in, format) ==
    IF format = "docx" /\ ~IsBuffer(in)
    THEN ValidationError("DOCX input must be a Buffer", "input")
    ELSE IF format = "pdf" /\ ~IsBuffer(in)
    THEN ValidationError("PDF input must be a Buffer", "input")
    ELSE NoError

\* parseInput, the parser call it dispatches to
parseInput(in, format) ==
    IF format = "docx" THEN parseDocx(in)
    ELSE IF format = "pdf" THEN parsePdf(in)
    ELSE IF format = "html"
    THEN parseHtml(StringInput(IF IsBuffer(in) THEN BufferToString(in.bytes) ELSE in.text))
    ELSE parseMarkdown(IF IsBuffer(in) THEN BufferToString(in.bytes) ELSE in.text)

(***************************************************************************)
(* Templates (templates/index.ts, templates/registry.ts).                  *)
(***************************************************************************)
Template(kind, id, type, content) ==
    [kind |-> kind, id |-> id, type |-> type, content |-> content]

NoTemplate == Template("undefined", "", "", "")

\* the registry's content: an html template and a pdf template have been
\* registered
templateRegistry ==
    { Template("template", "corp-html", "html", "corp"),
      Template("template", "corp-pdf", "pdf", "corp-pdf") }

\* templateRegistry.has(id)
RegistryHas(id) == \E t \in templateRegistry : t.id = id

\* templateRegistry.get(id)
RegistryGet(id) ==
    IF RegistryHas(id) THEN CHOOSE t \in templateRegistry : t.id = id ELSE NoTemplate

\* loadDefaultHtmlTemplate (templates/index.ts): null when the file is missing
loadDefaultHtmlTemplate(fileExists) ==
    IF fileExists THEN Template("template", "default-html", "html", "file") ELSE NoTemplate

TemplateOutcome(err, template) == [err |-> err, template |-> template]

\* a lookup that hands over whatever template the id names
getTemplateForRendering_NoTypeCheck(templateId, type, fileExists) ==
    IF templateId # "undefined"
    THEN LET template == RegistryGet(templateId)
         IN  IF template.kind = "undefined"
             THEN TemplateOutcome(TemplateError("Template not found", templateId), NoTemplate)
             ELSE TemplateOutcome(NoError, template)
    ELSE IF type = "html"
    THEN TemplateOutcome(NoError, loadDefaultHtmlTemplate(fileExists))
    ELSE TemplateOutcome(NoError, NoTemplate)

\* getTemplateForRendering (html.ts:908-934)
getTemplateForRendering(templateId, type, fileExists) ==
    IF templateId # "undefined"
    THEN LET template == RegistryGet(templateId)
         IN  IF template.kind = "undefined"
             THEN TemplateOutcome(TemplateError("Template not found", templateId), NoTemplate)
             ELSE IF template.type # type
             THEN TemplateOutcome(TemplateError("Template type mismatch", templateId), NoTemplate)
             ELSE TemplateOutcome(NoError, template)
    ELSE IF type = "html"
    THEN TemplateOutcome(NoError, loadDefaultHtmlTemplate(fileExists))
    ELSE TemplateOutcome(NoError, NoTemplate)

(***************************************************************************)
(* Renderers.  An artifact records everything the renderer read: the tree, *)
(* the metadata it used, the wrapping template and, for pdf, the creation  *)
(* date that is written into the document info.                            *)
(***************************************************************************)
Artifact(kind, tree, metadata, template, created) ==
    [kind |-> kind, tree |-> tree, metadata |-> metadata,
     template |-> template, created |-> created]

\* result.<key> === undefined
Absent == Artifact("absent", NoAst, MetadataField("undefined", "", "undefined"), "", 0)

\* what `metadata ? ... : ...` and `metadata?.x` see: null reads as undefined
MetadataView(m) ==
    IF m.kind = "object" THEN m ELSE MetadataField("undefined", "", "undefined")

RenderOutcome(err, value) == [err |-> err, value |-> value]

\* a renderer whose catch block rethrows the cause instead of wrapping it
WrapRenderError_Raw(format, cause) == cause

\* the catch block every renderer wraps its body in
WrapRenderError(format, cause) ==
    ConversionError("Failed to render", format, cause.message)

\* metadata.keywords.join(', ') throws when keywords is not an array
KeywordsJoinThrows(m) == m.kind = "object" /\ m.keywords = "string"

renderMarkdown(tree, metadata) ==
    RenderOutcome(NoError, Artifact("md", tree, MetadataView(metadata), "", 0))

renderHtml(tree, metadata, template) ==
    IF KeywordsJoinThrows(metadata)
    THEN RenderOutcome(WrapRenderError("html", RawError("keywords.join is not a function")), Absent)
    ELSE RenderOutcome(NoError,
             Artifact("html", tree, MetadataView(metadata),
                      IF template.kind = "template" THEN template.content ELSE "DEFAULT_TEMPLATE",
                      0))

\* now: the clock value new Date() reads
renderPdf(tree, metadata, now) ==
    IF KeywordsJoinThrows(metadata)
    THEN RenderOutcome(WrapRenderError("pdf", RawError("keywords.join is not a function")), Absent)
    ELSE RenderOutcome(NoError, Artifact("pdf", tree, MetadataView(metadata), "", now))

renderDocx(tree, metadata) ==
    IF KeywordsJoinThrows(metadata)
    THEN RenderOutcome(WrapRenderError("docx", RawError("keywords.join is not a function")), Absent)
    ELSE RenderOutcome(NoError, Artifact("docx", tree, MetadataView(metadata), "", 0))

\* the renderer call of convertToFormat's switch (engine.ts:266-287)
Render(format, tree, metadata, template, now) ==
    IF format = "md" THEN renderMarkdown(tree, metadata)
    ELSE IF format = "html" THEN renderHtml(tree, metadata, template)
    ELSE IF format = "pdf" THEN renderPdf(tree, metadata, now)
    ELSE renderDocx(tree, metadata)

\* a docx renderer that consumes the tree's children while it walks them
AstAfterRender_DocxShifts(format, tree) ==
    IF format = "docx" /\ Len(tree.children) > 0
    THEN [tree EXCEPT !.children = Tail(@)]
    ELSE tree

\* What a renderer leaves of the tree and of the metadata object it was given:
\* no renderer writes to either.
AstAfterRender(format, tree) == tree

MetadataAfterRender(format, metadata) == metadata

(***************************************************************************)
(* convert (engine.ts:40-89): the pieces of its body.                      *)
(***************************************************************************)
\* options.format of a call that passed validation
Requested == options.format.list

EmptyResult == [f \in OutputFormats |-> Absent]

\* Object.keys(result) of a ConvertResult
Keys(res) == {f \in OutputFormats : res[f] # Absent}

\* a convert that always runs the detector
DeclaresInputFormat_Never(opts) == FALSE

\* engine.ts:48: options.inputFormat || detectInputFormat(input)
DeclaresInputFormat(opts) == opts.inputFormat # "undefined"

\* a convert that logs a parse failure and carries on
PhaseAfterParse_Continues(parsed) == "rendering"

\* engine.ts:52: a rejected parseInput promise rejects convert, a fulfilled one
\* lets it go on to the fan-out
PhaseAfterParse(parsed) == IF parsed.err # NoError THEN "errored" ELSE "rendering"

\* engine.ts:58: the for loop issues every convertToFormat call before the
\* await of line 85 is reached
LoopRunning(nx, list) == nx <= Len(list)

\* a .then callback whose switch has no docx case
ThenHandler_NoDocx(res, format, output) ==
    IF format = "md" THEN [res EXCEPT !["md"] = output]
    ELSE IF format = "html" THEN [res EXCEPT !["html"] = output]
    ELSE IF format = "pdf" THEN [res EXCEPT !["pdf"] = output]
    ELSE res

\* a .then callback whose pdf case assigns result.html
ThenHandler_PdfIntoHtml(res, format, output) ==
    IF format = "md" THEN [res EXCEPT !["md"] = output]
    ELSE IF format = "html" THEN [res EXCEPT !["html"] = output]
    ELSE IF format = "pdf" THEN [res EXCEPT !["html"] = output]
    ELSE IF format = "docx" THEN [res EXCEPT !["docx"] = output]
    ELSE res

\* the .then callback of engine.ts:60-75
ThenHandler(res, format, output) ==
    IF format = "md" THEN [res EXCEPT !["md"] = output]
    ELSE IF format = "html" THEN [res EXCEPT !["html"] = output]
    ELSE IF format = "pdf" THEN [res EXCEPT !["pdf"] = output]
    ELSE IF format = "docx" THEN [res EXCEPT !["docx"] = output]
    ELSE res

\* a .catch callback that logs and does not rethrow
CatchHandler_Swallows(error) == [rethrown |-> FALSE, err |-> error]

\* the .catch callback of engine.ts:76-79: it logs and rethrows
CatchHandler(error) == [rethrown |-> TRUE, err |-> error]

\* One promise chain of conversions[]:
\*   template   getTemplateForRendering is awaited
\*   rendering  the renderer has been called and has not returned
\*   settling   the renderer returned during the loop (renderMarkdown has no
\*              await); its callbacks have not run yet
\*   fulfilled / rejected
\* pending is what convertToFormat's own promise settled with, err the reason
\* the chain rejected with.
Task(format, st, template, pending, err) ==
    [format |-> format, st |-> st, template |-> template, pending |-> pending, err |-> err]

Settled(t) == t.st \in {"fulfilled", "rejected"}

\* state of the promise Promise.all returns
Join(st, err) == [st |-> st, err |-> err]

\* a join that waits for every chain to settle before it rejects
PromiseAll_WaitsForAll(old, settled, ts, n) ==
    IF old.st # "pending" THEN old
    ELSE IF Len(ts) = n /\ \A i \in 1..n : Settled(ts[i])
    THEN IF \E i \in 1..n : ts[i].st = "rejected"
         THEN Join("rejected", (ts[CHOOSE i \in 1..n : ts[i].st = "rejected"]).err)
         ELSE Join("fulfilled", NoError)
    ELSE old

\* The reaction of Promise.all (engine.ts:85) to the chain `settled` having
\* settled: the first rejection rejects it, the last fulfilment fulfils it.
PromiseAll(old, settled, ts, n) ==
    IF old.st # "pending" THEN old
    ELSE IF settled.st = "rejected" THEN Join("rejected", settled.err)
    ELSE IF Len(ts) = n /\ \A i \in 1..n : ts[i].st = "fulfilled" THEN Join("fulfilled", NoError)
    ELSE old

Outcome(st, value, err) == [st |-> st, value |-> value, err |-> err]

Calls(d, p, t, r) == [detect |-> d, parser |-> p, templates |-> t, renderers |-> r]

\* detectInputFormat is not being called on its own
DetectIdle == detInput = UndefinedValue /\ detected = <<>>

\* A call of convertTo or of one of its four shorthands: the function, its
\* format argument ("undefined" for the shorthands), its options argument and
\* how its promise settled.
WrapperCall(fn, format, opts, st, value, err) ==
    [fn |-> fn, format |-> format, options |-> opts, st |-> st, value |-> value, err |-> err]

\* convert was not called through a wrapper
WrapperIdle == wrapper = WrapperCall("none", "undefined", NoOptions, "none", Absent, NoError)

\* The locals of parseExtractedText (pdf.ts:49-53) and of parseRawText
\* (lines 55-57 of the docx parser), with the index of the line the loop is at.
ScanState(path, lines, i, children, currentParagraphLines, listItems, inList, done) ==
    [path |-> path, lines |-> lines, i |-> i, children |-> children,
     currentParagraphLines |-> currentParagraphLines, listItems |-> listItems,
     inList |-> inList, done |-> done]

\* no extracted text is being scanned
ScanIdle == scan = ScanState("none", <<>>, 0, <<>>, <<>>, <<>>, FALSE, FALSE)

\* The locals of detectHeadings (markdown parser, lines 64-65) with the index
\* of its loop.
NormState(lines, i, out, done) ==
    [lines |-> lines, i |-> i, result |-> out, done |-> done]

\* no text is being normalised
NormIdle == norm = NormState(<<>>, 0, <<>>, FALSE)

\* A TemplateRegistry (registry.ts:10-11) with the register calls made on it.
\* templates is the Map, as the set of its entries.
RegistryState(templates, registerCalls) ==
    [templates |-> templates, calls |-> registerCalls]

\* a fresh registry nobody has called
RegIdle == reg = RegistryState({}, <<>>)

\* A call of applyTemplate (html.ts:311-329): the template, the content, the
\* metadata's title and author, how many replace calls have run, and the
\* local it rewrites.  Strings are sequences of pieces: a placeholder, a
\* replacement pattern or a stretch of other text.
SubstState(template, content, title, author, step, text) ==
    [template |-> template, content |-> content, title |-> title, author |-> author,
     step |-> step, result |-> text]

\* applyTemplate is not being called on its own
SubstIdle == subst = SubstState(<<>>, <<>>, <<>>, <<>>, 0, <<>>)

\* astToHtml is not being called on its own
EscapeIdle ==
    /\ escTree = [type |-> "none", value |-> <<>>, children |-> <<>>]
    /\ escOut = [done |-> FALSE, html |-> <<>>]

\* no parser is being called on its own
ParseIdle ==
    /\ parseFn = "none"
    /\ parseArg = UndefinedValue
    /\ parseResult = ParseOutcome(NoError, NoAst)

(***************************************************************************)
(* The state after the caller has invoked convert(input, options).         *)
(***************************************************************************)
Init ==
    /\ input \in Inputs
    /\ options \in OptionsValues
    /\ defaultFile \in BOOLEAN
    /\ callNo = 1
    /\ prev = EmptyResult
    /\ phase = "validating"
    /\ inputFormat = "unset"
    /\ ast = NoAst
    /\ next = 1
    /\ tasks = <<>>
    /\ joined = Join("pending", NoError)
    /\ result = EmptyResult
    /\ outcome = Outcome("pending", EmptyResult, NoError)
    /\ calls = Calls(0, 0, 0, 0)
    /\ DetectIdle
    /\ ParseIdle
    /\ EscapeIdle
    /\ WrapperIdle
    /\ ScanIdle
    /\ NormIdle
    /\ RegIdle
    /\ SubstIdle

\* engine.ts:45-48: validateInput, then the declared input format if any
Validate ==
    /\ phase = "validating"
    /\ LET e == validateInput(input, options)
       IN  IF e # NoError
           THEN /\ phase' = "errored"
                /\ outcome' = Outcome("rejected", EmptyResult, e)
                /\ UNCHANGED inputFormat
           ELSE IF DeclaresInputFormat(options)
           THEN /\ phase' = "parsing"
                /\ inputFormat' = options.inputFormat
                /\ UNCHANGED outcome
           ELSE /\ phase' = "detecting"
                /\ UNCHANGED <<inputFormat, outcome>>
    /\ UNCHANGED <<outsideConvert, input, options, defaultFile, callNo, prev, ast, next, tasks,
                   joined, result, calls>>

\* engine.ts:48: detectInputFormat(input)
Detect ==
    /\ phase = "detecting"
    /\ inputFormat' = detectInputFormat(input)
    /\ calls' = [calls EXCEPT !.detect = @ + 1]
    /\ phase' = "parsing"
    /\ UNCHANGED <<outsideConvert, input, options, defaultFile, callNo, prev, ast, next, tasks,
                   joined, result, outcome>>

\* engine.ts:52, 174-202: parseInput runs up to the parser call
Dispatch ==
    /\ phase = "parsing"
    /\ calls.parser = 0
    /\ LET e == parseInputGuard(input, inputFormat)
       IN  IF e # NoError
           THEN /\ phase' = "errored"
                /\ outcome' = Outcome("rejected", EmptyResult, e)
                /\ UNCHANGED calls
           ELSE /\ calls' = [calls EXCEPT !.parser = @ + 1]
                /\ UNCHANGED <<phase, outcome>>
    /\ UNCHANGED <<outsideConvert, input, options, defaultFile, callNo, prev, inputFormat, ast,
                   next, tasks, joined, result>>

\* engine.ts:52-56: the parser's promise settles and convert resumes
ParseDone ==
    /\ phase = "parsing"
    /\ calls.parser = 1
    /\ LET parsed == parseInput(input, inputFormat)
       IN  /\ phase' = PhaseAfterParse(parsed)
           /\ ast' = parsed.tree
           /\ outcome' = IF PhaseAfterParse(parsed) = "errored"
                         THEN Outcome("rejected", EmptyResult, parsed.err)
                         ELSE outcome
    /\ next' = 1
    /\ tasks' = <<>>
    /\ result' = EmptyResult
    /\ UNCHANGED <<outsideConvert, input, options, defaultFile, callNo, prev, inputFormat, joined, calls>>

\* engine.ts:58-82: one iteration of the for loop.  convertToFormat runs up to
\* its first await: renderMarkdown, which awaits nothing, has returned by then;
\* the other formats are waiting for getTemplateForRendering.
StartConversion ==
    /\ phase = "rendering"
    /\ LoopRunning(next, Requested)
    /\ LET format == Requested[next]
       IN  IF format = "md"
           THEN /\ tasks' = Append(tasks,
                        Task("md", "settling", NoTemplate,
                             renderMarkdown(ast, options.metadata), NoError))
                /\ calls' = [calls EXCEPT !.renderers = @ + 1]
                /\ ast' = AstAfterRender("md", ast)
                /\ options' = [options EXCEPT !.metadata = MetadataAfterRender("md", @)]
           ELSE LET t == getTemplateForRendering(options.templateId, format, defaultFile)
                IN  /\ tasks' = Append(tasks,
                            Task(format, "template", t.template,
                                 RenderOutcome(NoError, Absent), t.err))
                    /\ calls' = [calls EXCEPT !.templates = @ + 1]
                    /\ UNCHANGED <<ast, options>>
    /\ next' = next + 1
    /\ UNCHANGED <<outsideConvert, input, defaultFile, callNo, prev, phase, inputFormat, joined,
                   result, outcome>>

\* engine.ts:59-79: chain i settles with the renderer outcome r; its .then or
\* .catch callback runs and Promise.all reacts.
SettleChain(i, r) ==
    LET h  == CatchHandler(r.err)
        t2 == IF r.err = NoError
              THEN [tasks[i] EXCEPT !.st = "fulfilled", !.pending = r]
              ELSE IF h.rethrown
              THEN [tasks[i] EXCEPT !.st = "rejected", !.pending = r, !.err = h.err]
              ELSE [tasks[i] EXCEPT !.st = "fulfilled", !.pending = r]
        ts == [tasks EXCEPT ![i] = t2]
    IN  /\ tasks' = ts
        /\ result' = IF r.err = NoError
                     THEN ThenHandler(result, tasks[i].format, r.value)
                     ELSE result
        /\ joined' = PromiseAll(joined, t2, ts, Len(Requested))

\* engine.ts:270-283: the awaited getTemplateForRendering settles; a template
\* error rejects the chain, otherwise the renderer is called
TemplateResolved(i) ==
    /\ ~LoopRunning(next, Requested)
    /\ tasks[i].st = "template"
    /\ IF tasks[i].err # NoError
       THEN /\ SettleChain(i, RenderOutcome(tasks[i].err, Absent))
            /\ UNCHANGED calls
       ELSE /\ tasks' = [tasks EXCEPT ![i].st = "rendering"]
            /\ calls' = [calls EXCEPT !.renderers = @ + 1]
            /\ UNCHANGED <<result, joined>>
    /\ UNCHANGED <<outsideConvert, input, options, defaultFile, callNo, prev, phase, inputFormat,
                   ast, next, outcome>>

\* renderHtml / renderPdf / renderDocx returns or throws
RenderDone(i) ==
    /\ ~LoopRunning(next, Requested)
    /\ tasks[i].st = "rendering"
    /\ SettleChain(i, Render(tasks[i].format, ast, options.metadata,
                             tasks[i].template, callNo))
    /\ ast' = AstAfterRender(tasks[i].format, ast)
    /\ options' = [options EXCEPT !.metadata = MetadataAfterRender(tasks[i].format, @)]
    /\ UNCHANGED <<outsideConvert, input, defaultFile, callNo, prev, phase, inputFormat, next,
                   outcome, calls>>

\* the callbacks of a chain whose renderer returned during the loop
MarkdownSettles(i) ==
    /\ ~LoopRunning(next, Requested)
    /\ tasks[i].st = "settling"
    /\ SettleChain(i, tasks[i].pending)
    /\ UNCHANGED <<outsideConvert, input, options, defaultFile, callNo, prev, phase, inputFormat,
                   ast, next, outcome, calls>>

\* engine.ts:85-88: the await of Promise.all resumes convert
ConvertResumes ==
    /\ phase = "rendering"
    /\ ~LoopRunning(next, Requested)
    /\ joined.st # "pending"
    /\ IF joined.st = "rejected"
       THEN /\ phase' = "errored"
            /\ outcome' = Outcome("rejected", EmptyResult, joined.err)
       ELSE /\ phase' = "done"
            /\ outcome' = Outcome("resolved", result, NoError)
    /\ UNCHANGED <<outsideConvert, input, options, defaultFile, callNo, prev, inputFormat, ast,
                   next, tasks, joined, result, calls>>

\* The caller, holding the result of a resolved call, calls convert again with
\* the same input and options, requesting one of the formats alone.
FollowUp(f) ==
    /\ phase = "done"
    /\ callNo = 1
    /\ f \in Keys(outcome.value)
    /\ callNo' = 2
    /\ prev' = outcome.value
    /\ options' = [options EXCEPT !.format = FormatField("array", <<f>>)]
    /\ phase' = "validating"
    /\ inputFormat' = "unset"
    /\ ast' = NoAst
    /\ next' = 1
    /\ tasks' = <<>>
    /\ joined' = Join("pending", NoError)
    /\ result' = EmptyResult
    /\ outcome' = Outcome("pending", EmptyResult, NoError)
    /\ calls' = Calls(0, 0, 0, 0)
    /\ UNCHANGED <<outsideConvert, input, defaultFile>>

Next ==
    \/ Validate
    \/ Detect
    \/ Dispatch
    \/ ParseDone
    \/ StartConversion
    \/ \E i \in 1..Len(tasks) : TemplateResolved(i)
    \/ \E i \in 1..Len(tasks) : RenderDone(i)
    \/ \E i \in 1..Len(tasks) : MarkdownSettles(i)
    \/ ConvertResumes
    \/ \E f \in OutputFormats : FollowUp(f)

Spec == Init /\ [][Next]_vars

(***************************************************************************)
(* Properties of convert.                                                  *)
(***************************************************************************)
\* chain i has settled and the convertToFormat call behind it failed (its
\* renderer or its template resolution threw)
ConversionFailed(i) == Settled(tasks[i]) /\ tasks[i].pending.err # NoError

\* C1: if any requested renderer, or its template resolution, fails, convert
\* rejects with such a failure: it never resolves (so the caller never gets a
\* map that merely lacks the failed key), the join is rejected as soon as a
\* chain has failed, a rejection that comes from the fan-out carries the error
\* of a failed conversion, and a rejected call hands over no result map.
C1_RenderFailureRejectsCall ==
    /\ (\E i \in 1..Len(tasks) : ConversionFailed(i)) =>
           /\ outcome.st # "resolved"
           /\ phase # "done"
           /\ joined.st = "rejected"
    /\ (outcome.st = "rejected" /\ Len(tasks) > 0) =>
           \E i \in 1..Len(tasks) : ConversionFailed(i) /\ outcome.err = tasks[i].pending.err
    /\ outcome.st = "rejected" => outcome.value = EmptyResult

\* a call rejected because one format failed although another requested
\* format had been rendered and stored
C1_Witness ==
    /\ outcome.st = "rejected"
    /\ \E i, j \in 1..Len(tasks) :
           /\ ConversionFailed(i)
           /\ outcome.err = tasks[i].pending.err
           /\ tasks[j].st = "fulfilled"
           /\ result[tasks[j].format] # Absent

\* C2: when convert resolves, the result map has an artifact under a key if
\* and only if that format is in the requested list, duplicates included.
C2_ResultKeysAreRequested ==
    outcome.st = "resolved" =>
        \A f \in OutputFormats : (outcome.value[f] # Absent) <=> (f \in Range(Requested))

\* a resolved call whose list names the same format twice
C2_Witness ==
    /\ outcome.st = "resolved"
    /\ Len(Requested) > Cardinality(Range(Requested))
    /\ \A f \in Range(Requested) : outcome.value[f] # Absent

\* The validation rules as the specification lists them, by offending field.
MissingInput(in) == in.kind \in {"undefined", "null"}

WrongInputType(in) == ~MissingInput(in) /\ in.kind \notin {"string", "buffer"}

MissingOptions(opts) == ~opts.present

BadFormatList(opts) ==
    opts.present /\ (opts.format.kind # "array" \/ Len(opts.format.list) = 0)

UnsupportedOutput(opts) ==
    /\ opts.present
    /\ opts.format.kind = "array"
    /\ \E k \in 1..Len(opts.format.list) : opts.format.list[k] \notin OutputFormats

BadInputFormat(opts) ==
    /\ opts.present
    /\ opts.inputFormat \notin {"undefined", "text", "md", "docx", "pdf", "html"}

\* metadata that is provided and is not an object; null, like undefined, is
\* taken as metadata that was not provided
BadMetadata(opts) ==
    opts.present /\ opts.metadata.kind \notin {"undefined", "null", "object"}

\* the binary-input rule of the parsing state
BinaryFormatWithString(in, opts) ==
    opts.present /\ opts.inputFormat \in {"pdf", "docx"} /\ IsString(in)

ViolatesValidation(in, opts) ==
    \/ MissingInput(in) \/ WrongInputType(in) \/ MissingOptions(opts)
    \/ BadFormatList(opts) \/ UnsupportedOutput(opts)
    \/ BadInputFormat(opts) \/ BadMetadata(opts)

\* C3: validation is eager.  When the arguments violate a validation rule, no
\* detector, parser, template lookup or renderer is ever invoked and the call
\* never leaves validation except by rejecting; the same holds for the
\* binary-input rule, which rejects at parse dispatch before the parser call.
C3_ValidationIsEager ==
    /\ ViolatesValidation(input, options) =>
           /\ calls = Calls(0, 0, 0, 0)
           /\ tasks = <<>>
           /\ ast = NoAst
           /\ phase \in {"validating", "errored"}
    /\ BinaryFormatWithString(input, options) =>
           /\ calls = Calls(0, 0, 0, 0)
           /\ tasks = <<>>
           /\ phase \in {"validating", "parsing", "errored"}

\* a call rejected for the rule validateInput checks last, with nothing started
C3_Witness ==
    /\ phase = "errored"
    /\ BadMetadata(options)
    /\ ~MissingInput(input) /\ ~WrongInputType(input) /\ ~BadFormatList(options)
    /\ ~UnsupportedOutput(options) /\ ~BadInputFormat(options)
    /\ outcome.st = "rejected"
    /\ calls = Calls(0, 0, 0, 0)

\* The error kinds a rejected call is allowed to carry.
FourKinds == {"ValidationError", "FormatError", "ParseError", "ConversionError"}

FiveKinds == FourKinds \cup {"TemplateError"}

\* the call asks for a template id and for a format that resolves templates
ResolvesTemplateId(opts) ==
    /\ opts.present
    /\ opts.templateId # "undefined"
    /\ opts.format.kind = "array"
    /\ \E k \in 1..Len(opts.format.list) : opts.format.list[k] \in {"html", "pdf", "docx"}

\* C4, as the specification states it: every failure convert surfaces is a
\* ValidationError, a FormatError, a ParseError or a ConversionError, template
\* errors included.
C4_OnlyFourKinds ==
    outcome.st = "rejected" => outcome.err.kind \in FourKinds

\* C4, amended: every failure convert surfaces is one of the five typed errors
\* ValidationError, FormatError, ParseError, ConversionError or TemplateError,
\* each with its stable code; a TemplateError reaches the caller unwrapped, and
\* only when a template id was given and resolving it for a requested html,
\* pdf or docx format failed; an exception thrown inside a renderer reaches
\* the caller as a ConversionError naming the format.
C4_FiveKinds ==
    outcome.st = "rejected" =>
        /\ outcome.err.kind \in FiveKinds
        /\ outcome.err.code # ""
        /\ outcome.err.kind = "TemplateError" =>
               /\ ResolvesTemplateId(options)
               /\ outcome.err.tag = options.templateId
               /\ \E i \in 1..Len(tasks) :
                      /\ tasks[i].format \in {"html", "pdf", "docx"}
                      /\ getTemplateForRendering(options.templateId, tasks[i].format,
                                                 defaultFile).err = outcome.err
        /\ outcome.err.kind = "ConversionError" =>
               \E i \in 1..Len(tasks) :
                   tasks[i].st = "rejected" /\ outcome.err.tag = tasks[i].format

\* a call rejected with the TemplateError of getTemplateForRendering
C4_Witness ==
    /\ outcome.st = "rejected"
    /\ outcome.err.kind = "TemplateError"
    /\ outcome.err.tag = "missing"
    /\ calls.templates > 0

\* a call rejected with a renderer's wrapped exception
C4_WrappedWitness ==
    /\ outcome.st = "rejected"
    /\ outcome.err.kind = "ConversionError"
    /\ KeywordsJoinThrows(options.metadata)

\* every requested format has had its convertToFormat call issued
AllStarted == Len(tasks) = Len(Requested) /\ ~LoopRunning(next, Requested)

\* chain i has moved past the point the for loop left it at
Advanced(i) ==
    \/ Settled(tasks[i])
    \/ tasks[i].st = "rendering"

\* chain i is still running: the step that moves it on is enabled
StillRuns(i) ==
    \/ tasks[i].st = "template"  /\ ENABLED TemplateResolved(i)
    \/ tasks[i].st = "rendering" /\ ENABLED RenderDone(i)
    \/ tasks[i].st = "settling"  /\ ENABLED MarkdownSettles(i)

\* C5: the render fan-out is fail-fast.  Every requested conversion is issued
\* before any chain is waited for (no chain moves on or settles while the loop
\* still has a format to start); as soon as one chain has rejected, convert can
\* resume and reject, whatever state the sibling chains are in; once convert
\* has rejected, a sibling that had completed keeps the artifact it stored and
\* a sibling that is still running goes on running.
C5_FailFastFanOut ==
    /\ (\E i \in 1..Len(tasks) : Advanced(i)) => AllStarted
    /\ (phase = "rendering" /\ AllStarted /\ \E i \in 1..Len(tasks) : tasks[i].st = "rejected") =>
           /\ joined.st = "rejected"
           /\ ENABLED ConvertResumes
    /\ (phase = "rendering" /\ joined.st = "rejected") =>
           \E i \in 1..Len(tasks) : tasks[i].st = "rejected" /\ tasks[i].err = joined.err
    /\ (phase = "errored" /\ Len(tasks) > 0) =>
           \A j \in 1..Len(tasks) :
               /\ tasks[j].st = "fulfilled" => result[tasks[j].format] = tasks[j].pending.value
               /\ ~Settled(tasks[j]) => StillRuns(j)

\* convert has rejected while one sibling is still running and another had
\* already stored its artifact
C5_Witness ==
    /\ phase = "errored"
    /\ outcome.st = "rejected"
    /\ \E i, j, k \in 1..Len(tasks) :
           /\ tasks[i].st = "rejected"
           /\ tasks[j].st \in {"template", "rendering"}
           /\ tasks[k].st = "fulfilled"
           /\ result[tasks[k].format] # Absent

\* the moves the lifecycle allows within one call
LifecycleOrder ==
    { <<"validating", "detecting">>, <<"validating", "parsing">>,
      <<"detecting", "parsing">>, <<"parsing", "rendering">>,
      <<"rendering", "done">>,
      <<"validating", "errored">>, <<"parsing", "errored">>,
      <<"rendering", "errored">> }

\* a template lookup or a renderer call has been made
RenderingBegun == Len(tasks) > 0 \/ calls.templates > 0 \/ calls.renderers > 0

LifecycleState ==
    /\ calls.parser <= 1
    /\ calls.detect <= 1
    /\ calls.detect = 1 => ~DeclaresInputFormat(options)
    /\ phase = "detecting" => ~DeclaresInputFormat(options) /\ calls.detect = 0
    /\ phase \in {"rendering", "done"} =>
           /\ calls.parser = 1
           /\ parseInput(input, inputFormat).err = NoError
           /\ ast = parseInput(input, inputFormat).tree
    /\ RenderingBegun =>
           /\ calls.parser = 1
           /\ phase \in {"rendering", "done", "errored"}
           /\ parseInput(input, inputFormat).err = NoError
           /\ ast # NoAst
    /\ phase = "done" =>
           /\ calls.renderers = Len(Requested)
           /\ outcome.st = "resolved"
    /\ phase = "errored" <=> outcome.st = "rejected"

LifecycleStep ==
    callNo' = callNo =>
        /\ phase' # phase => <<phase, phase'>> \in LifecycleOrder
        /\ phase = "errored" => phase' = "errored" /\ outcome' = outcome
        /\ calls'.parser >= calls.parser

\* C6: a convert call moves through validating, detecting (only when no input
\* format is declared), parsing, rendering and done in that order; the tree is
\* built by exactly one parser call however many formats are requested; no
\* template lookup or renderer call is made before the parser call has
\* completed, and none at all when parsing failed; a call that has errored
\* stays errored and never reaches done.
C6_Lifecycle == [](LifecycleState) /\ [][LifecycleStep]_vars

\* a call that went through detection, one parser call and four renderers
C6_Witness ==
    /\ phase = "done"
    /\ callNo = 1
    /\ Len(Requested) = 4
    /\ calls = Calls(1, 1, 3, 4)

\* a call whose parser failed: nothing was rendered
C6_ParseFailureWitness ==
    /\ phase = "errored"
    /\ outcome.err.kind = "ParseError"
    /\ calls.parser = 1
    /\ ~RenderingBegun

\* C7: concurrency independence.  When a call has resolved and the same input,
\* metadata and options are then converted to md alone or to html alone, the
\* second call resolves and its artifact equals the one the first call stored
\* under that key, whichever formats the first call rendered along with it and
\* in whichever order its chains settled.
C7_ConcurrencyIndependence ==
    callNo = 2 =>
        /\ (Requested[1] \in {"md", "html"} /\ phase \in {"done", "errored"}) =>
               outcome.st = "resolved"
        /\ outcome.st = "resolved" =>
               \A f \in {"md", "html"} \cap Keys(outcome.value) : outcome.value[f] = prev[f]

\* html alone, after a call that rendered md, html, pdf and docx together
C7_Witness ==
    /\ callNo = 2
    /\ outcome.st = "resolved"
    /\ Keys(prev) = OutputFormats
    /\ Keys(outcome.value) = {"html"}
    /\ outcome.value["html"] = prev["html"]

\* md alone, after the same four-format call
C7_MdWitness ==
    /\ callNo = 2
    /\ outcome.st = "resolved"
    /\ Keys(prev) = OutputFormats
    /\ Keys(outcome.value) = {"md"}

BinaryInputMessage(format) ==
    IF format = "pdf" THEN "PDF input must be a Buffer" ELSE "DOCX input must be a Buffer"

\* C9: when the declared input format is pdf or docx and the input is a
\* string, no parser and no renderer is ever invoked and convert never
\* resolves: the call rejects at parse dispatch, and for arguments that are
\* otherwise valid the rejection is the ValidationError of field "input" whose
\* message names the declared binary format.
C9_BinaryFormatNeedsBuffer ==
    BinaryFormatWithString(input, options) =>
        /\ calls.parser = 0
        /\ calls.renderers = 0
        /\ calls.templates = 0
        /\ tasks = <<>>
        /\ outcome.st # "resolved"
        /\ phase \in {"validating", "parsing", "errored"}
        /\ phase = "validating" => ENABLED Validate
        /\ phase = "parsing" => ENABLED Dispatch
        /\ (phase = "errored" /\ ~ViolatesValidation(input, options)) =>
               outcome = Outcome("rejected", EmptyResult,
                                 ValidationError(BinaryInputMessage(options.inputFormat), "input"))

\* a string declared as pdf, rejected at parse dispatch
C9_Witness ==
    /\ phase = "errored"
    /\ options.present
    /\ options.inputFormat = "pdf"
    /\ IsString(input)
    /\ inputFormat = "pdf"
    /\ outcome.err = ValidationError("PDF input must be a Buffer", "input")
    /\ calls.parser = 0

\* the fields that break one of the validation rules
OffendingFields(in, opts) ==
    {f \in {"input", "options", "format", "inputFormat", "metadata"} :
        \/ f = "input"       /\ (MissingInput(in) \/ WrongInputType(in))
        \/ f = "options"     /\ MissingOptions(opts)
        \/ f = "format"      /\ BadFormatList(opts)
        \/ f = "inputFormat" /\ BadInputFormat(opts)
        \/ f = "metadata"    /\ BadMetadata(opts)}

\* what the step out of validating does
ValidationStep ==
    (phase = "validating" /\ phase' # "validating") =>
        /\ OffendingFields(input, options) # {} =>
               /\ phase' = "errored"
               /\ outcome'.st = "rejected"
               /\ ~UnsupportedOutput(options) =>
                      /\ outcome'.err.kind = "ValidationError"
                      /\ outcome'.err.tag \in OffendingFields(input, options)
               /\ outcome'.err.kind \in {"ValidationError", "FormatError"}
               /\ outcome'.err.kind = "ValidationError" =>
                      outcome'.err.tag \in OffendingFields(input, options)
        /\ (OffendingFields(input, options) = {} /\ ~UnsupportedOutput(options)) =>
               /\ phase' \in {"detecting", "parsing"}
               /\ outcome'.st = "pending"

\* C10: convert rejects with a ValidationError naming the offending field for
\* missing or null input, input that is neither string nor Buffer, missing
\* options, a missing, non-array or empty format list, a declared input format
\* outside text, md, docx, pdf, html, and metadata whose typeof is not object;
\* when an unsupported output format is present as well, the rejection is that
\* ValidationError or the FormatError of the output format; a call with none
\* of these violations and only valid output formats passes validation.
C10_ValidationNamesField == [][ValidationStep]_vars

\* a call rejected for its declared input format, named by the error
C10_Witness ==
    /\ phase = "errored"
    /\ OffendingFields(input, options) = {"inputFormat"}
    /\ outcome.err.kind = "ValidationError"
    /\ outcome.err.tag = "inputFormat"

\* a call with no violation has passed validation
C10_PassWitness ==
    /\ phase = "parsing"
    /\ OffendingFields(input, options) = {}
    /\ options.metadata.kind = "object"
    /\ outcome.st = "pending"

\* the index of the first list element that is not an output format
FirstOffending(list) ==
    CHOOSE k \in 1..Len(list) :
        /\ list[k] \notin OutputFormats
        /\ \A j \in 1..(k - 1) : list[j] \in OutputFormats

\* C11: when the input is a string or a Buffer and the requested list has an
\* element outside md, pdf, docx, html, convert rejects during validation
\* with a FormatError whose invalidFormat is the first such element in list
\* order, whatever the other elements, the declared input format and the
\* metadata are.
C11_FirstOffendingFormat ==
    (UnsupportedOutput(options) /\ ~MissingInput(input) /\ ~WrongInputType(input)) =>
        /\ phase \in {"validating", "errored"}
        /\ phase = "validating" => ENABLED Validate
        /\ phase = "errored" =>
               /\ outcome.st = "rejected"
               /\ outcome.err = FormatError(Requested[FirstOffending(Requested)])
               /\ outcome.err.kind = "FormatError"
               /\ outcome.err.tag = Requested[FirstOffending(Requested)]

\* a list of two different unsupported values: the first one is reported
C11_Witness ==
    /\ phase = "errored"
    /\ Len(Requested) = 2
    /\ Requested[1] \notin OutputFormats
    /\ Requested[2] \notin OutputFormats
    /\ Requested[1] # Requested[2]
    /\ outcome.err.kind = "FormatError"
    /\ outcome.err.tag = Requested[1]

\* a valid format followed by an unsupported one
C11_MixedWitness ==
    /\ phase = "errored"
    /\ Len(Requested) = 2
    /\ Requested[1] \in OutputFormats
    /\ outcome.err.kind = "FormatError"
    /\ outcome.err.tag = Requested[2]

\* a valid input format is declared
DeclaredValid(opts) ==
    opts.present /\ opts.inputFormat \in {"text", "md", "docx", "pdf", "html"}

\* C12: when a valid input format is declared the detector is never called,
\* the format convert parses with is the declared one, and the tree is the
\* one the declared format's parser builds, also when the detector would
\* classify the content as another format; the detector is called, once,
\* only by calls that declare no input format.
C12_DeclaredFormatWins ==
    /\ DeclaredValid(options) =>
           /\ calls.detect = 0
           /\ phase # "detecting"
           /\ inputFormat \in {"unset", options.inputFormat}
           /\ calls.parser = 1 => inputFormat = options.inputFormat
           /\ phase \in {"rendering", "done"} =>
                  ast = parseInput(input, options.inputFormat).tree
    /\ calls.detect > 0 =>
           /\ options.present /\ options.inputFormat = "undefined"
           /\ inputFormat = detectInputFormat(input)

\* bytes that carry the pdf signature, declared as markdown and parsed as such
C12_Witness ==
    /\ phase = "done"
    /\ options.inputFormat = "md"
    /\ detectInputFormat(input) = "pdf"
    /\ calls.detect = 0
    /\ ast = parseMarkdown(BufferToString(input.bytes)).tree
    /\ ast # parsePdf(input).tree

(***************************************************************************)
(* detectInputFormat called on its own (it is exported by index.ts).       *)
(***************************************************************************)
\* the pieces detection inputs are put together from: doctype and html tags
\* in three letter cases, opening, closing, void and self-closing tags, a
\* CDATA opener, and filler
TextFragments ==
    { <<"<", "!", "D", "O", "C", "T", "Y", "P", "E">>,
      <<"<", "!", "d", "o", "c", "t", "y", "p", "e">>,
      <<"<", "!", "D", "o", "c", "T", "y", "p", "e">>,
      <<"<", "h", "t", "m", "l">>,
      <<"<", "H", "T", "M", "L">>,
      <<"<", "H", "t", "m", "l">>,
      <<"<", "p">>,
      <<"<", "b", "r">>,
      <<"<", "!", "[">>,
      <<">">>,
      <<"/", ">">>,
      <<"<", "/", "P", ">">>,
      <<" ">>,
      <<"_">>,
      <<"x">> }

\* PK\x03\x04 whole and in halves, "%", "%" with the high bit set, "PDF-",
\* "<p>", "</p>", a space and a letter
ByteFragments ==
    { <<80, 75, 3, 4>>, <<80, 75>>, <<3, 4>>,
      <<37>>, <<165>>, <<80, 68, 70, 45>>,
      <<60, 112, 62>>, <<60, 47, 112, 62>>,
      <<32>>, <<120>> }

RECURSIVE Flatten(_)
Flatten(q) == IF q = <<>> THEN <<>> ELSE Head(q) \o Flatten(Tail(q))

DetectInputs ==
    { StringInput(Flatten(q)) : q \in SeqsUpTo(TextFragments, MaxFragments) }
    \cup { BufferInput(Flatten(q)) : q \in SeqsUpTo(ByteFragments, MaxFragments) }

\* no convert call is in progress
ConvertIdle ==
    /\ input = UndefinedValue
    /\ options = NoOptions
    /\ defaultFile = FALSE
    /\ callNo = 1
    /\ prev = EmptyResult
    /\ phase = "idle"
    /\ inputFormat = "unset"
    /\ ast = NoAst
    /\ next = 1
    /\ tasks = <<>>
    /\ joined = Join("pending", NoError)
    /\ result = EmptyResult
    /\ outcome = Outcome("pending", EmptyResult, NoError)
    /\ calls = Calls(0, 0, 0, 0)

DetectInit ==
    /\ detInput \in DetectInputs
    /\ detected = <<>>
    /\ ConvertIdle
    /\ ParseIdle
    /\ EscapeIdle
    /\ WrapperIdle
    /\ ScanIdle
    /\ NormIdle
    /\ RegIdle
    /\ SubstIdle

\* detectInputFormat(detInput) is called and returns
CallDetect ==
    /\ detInput.kind \in {"string", "buffer"}
    /\ Len(detected) < MaxDetectCalls
    /\ detected' = Append(detected, detectInputFormat(detInput))
    /\ UNCHANGED <<detInput, outsideDetect>>

DetectNext == CallDetect

DetectSpec == DetectInit /\ [][DetectNext]_vars

C13_TextWitness ==
    /\ IsString(detInput)
    /\ Len(detInput.text) > 0
    /\ detected = <<"md", "md">>

\* the byte signatures, as the specification words them
HasDocxSignature(bytes) ==
    Len(bytes) >= 4 /\ SubSeq(bytes, 1, 4) = <<80, 75, 3, 4>>

HasPdfSignature(bytes) ==
    Len(bytes) >= 5 /\ SubSeq(bytes, 1, 5) = <<37, 80, 68, 70, 45>>

\* C14: for byte input the detector returns docx iff the first four bytes are
\* 0x50 0x4B 0x03 0x04, otherwise pdf iff the first five bytes are the ASCII
\* characters %PDF-, and otherwise what the text rules give for the decoded
\* content; a sequence shorter than a signature does not match it.
C14_ByteSignatures ==
    (IsBuffer(detInput) /\ Len(detected) > 0) =>
        /\ detected[1] = "docx" <=> HasDocxSignature(detInput.bytes)
        /\ detected[1] = "pdf" <=>
               (~HasDocxSignature(detInput.bytes) /\ HasPdfSignature(detInput.bytes))
        /\ (~HasDocxSignature(detInput.bytes) /\ ~HasPdfSignature(detInput.bytes)) =>
               detected[1] = detectStringFormat(BufferToString(detInput.bytes))

\* the same letters, whatever their case
EqualIgnoringCase(a, b) == ToLowerCase(a) = ToLowerCase(b)

StartsWithIgnoringCase(s, p) ==
    Len(s) >= Len(p) /\ EqualIgnoringCase(SubSeq(s, 1, Len(p)), p)

\* the text rules, as the specification words them
TextRulesSayHtml(text) ==
    LET t == Trim(text)
    IN  \/ StartsWithIgnoringCase(t, <<"<", "!", "d", "o", "c", "t", "y", "p", "e">>)
        \/ StartsWithIgnoringCase(t, <<"<", "h", "t", "m", "l">>)
        \/ /\ HtmlTagMatches(t)
           /\ \/ Contains(ToLowerCase(t), <<"<", "/">> \o HtmlTagName(t) \o <<">">>)
              \/ (Len(HtmlTagMatch(t)) >= 2 /\ HtmlTagMatch(t)[Len(HtmlTagMatch(t)) - 1] = "/")
              \/ HtmlTagName(t) \in VoidElements

\* C15: for text input the detector returns html when the trimmed text starts
\* with a doctype declaration in any letter case, starts with an <html tag in
\* any letter case, or starts with an opening tag that has a matching closing
\* tag, is self-closing or is a void element; in every other case it returns
\* md.
C15_TextRules ==
    (IsString(detInput) /\ Len(detected) > 0) =>
        detected[1] = (IF TextRulesSayHtml(detInput.text) THEN "html" ELSE "md")

(***************************************************************************)
(* The parsers called on their own (parsePdf, parseDocx and parseHtml are  *)
(* exported by index.ts).                                                  *)
(***************************************************************************)
\* what a caller passes: values that are neither string nor Buffer, strings,
\* and buffers put together from the byte fragments, among them the empty
\* buffer, buffers a codec reads and buffers it does not
ParseInputs ==
    { UndefinedValue, NullValue, NumberValue,
      StringInput(<<>>), StringInput(PlainText), StringInput(HtmlText) }
    \cup { BufferInput(Flatten(q)) : q \in SeqsUpTo(ByteFragments, MaxFragments) }

ParseInit ==
    /\ parseFn = "none"
    /\ parseArg \in ParseInputs
    /\ parseResult = ParseOutcome(NoError, NoAst)
    /\ ConvertIdle
    /\ DetectIdle
    /\ EscapeIdle
    /\ WrapperIdle
    /\ ScanIdle
    /\ NormIdle
    /\ RegIdle
    /\ SubstIdle

CallParsePdf ==
    /\ parseFn = "none"
    /\ parseFn' = "parsePdf"
    /\ parseResult' = parsePdf(parseArg)
    /\ UNCHANGED <<parseArg, outsideParse>>

CallParseDocx ==
    /\ parseFn = "none"
    /\ parseFn' = "parseDocx"
    /\ parseResult' = parseDocx(parseArg)
    /\ UNCHANGED <<parseArg, outsideParse>>

CallParseHtml ==
    /\ parseFn = "none"
    /\ parseFn' = "parseHtml"
    /\ parseResult' = parseHtml(parseArg)
    /\ UNCHANGED <<parseArg, outsideParse>>

ParseNext == CallParsePdf \/ CallParseDocx \/ CallParseHtml

ParseSpec == ParseInit /\ [][ParseNext]_vars

\* the argument is a non-empty byte sequence
NonEmptyBytes(v) == IsBuffer(v) /\ Len(v.bytes) > 0

\* the codec of the called parser cannot read the bytes
Unreadable(fn, bytes) ==
    \/ fn = "parsePdf" /\ ~PdfCodecReads(bytes)
    \/ fn = "parseDocx" /\ ~DocxCodecReads(bytes)

\* C16: parsePdf and parseDocx return the empty root, without error, for an
\* empty byte sequence and for an argument that is not a Buffer; for a
\* non-empty byte sequence the codec cannot read they reject with a
\* ParseError that carries the codec's error as cause; parseHtml returns the
\* empty root for the empty string and for an argument that is not a string.
C16_ParserEdgeCases ==
    /\ parseFn \in {"parsePdf", "parseDocx"} =>
           /\ ~NonEmptyBytes(parseArg) => parseResult = ParseOutcome(NoError, EmptyRoot)
           /\ (NonEmptyBytes(parseArg) /\ Unreadable(parseFn, parseArg.bytes)) =>
                  /\ parseResult.err.kind = "ParseError"
                  /\ parseResult.err.code = "PARSE_ERROR"
                  /\ parseResult.err.cause # ""
                  /\ parseResult.tree = NoAst
           /\ (NonEmptyBytes(parseArg) /\ ~Unreadable(parseFn, parseArg.bytes)) =>
                  parseResult.err = NoError /\ parseResult.tree.type = "root"
    /\ parseFn = "parseHtml" =>
           /\ (~IsString(parseArg) \/ parseArg.text = <<>>) =>
                  parseResult = ParseOutcome(NoError, EmptyRoot)
           /\ parseResult.err = NoError

\* parsePdf rejected a buffer that is not a pdf, with the codec's error
C16_Witness ==
    /\ parseFn = "parsePdf"
    /\ NonEmptyBytes(parseArg)
    /\ parseResult.err.kind = "ParseError"
    /\ parseResult.err.cause = "Invalid PDF structure"

\* parseDocx returned the empty root for the empty buffer
C16_EmptyWitness ==
    /\ parseFn = "parseDocx"
    /\ parseArg = BufferInput(<<>>)
    /\ parseResult = ParseOutcome(NoError, EmptyRoot)

\* parseHtml returned the empty root for a Buffer argument
C16_HtmlWitness ==
    /\ parseFn = "parseHtml"
    /\ NonEmptyBytes(parseArg)
    /\ parseResult = ParseOutcome(NoError, EmptyRoot)

(***************************************************************************)
(* The html renderer's content (renderers/html.ts: astToHtml, renderNode,  *)
(* extractText, escapeHtml).  A node is [type, value, children].  Rendered *)
(* content is a sequence whose elements are either one character of text  *)
(* or one piece of markup the renderer wrote ("<p>", "</li>", "\n"), so a  *)
(* "<" that comes from text is told apart from the "<" of a tag.           *)
(***************************************************************************)
\* longest text node value that is enumerated
MaxTextLen == 3

Node(type, value, children) == [type |-> type, value |-> value, children |-> children]

Text(value) == Node("text", value, <<>>)

\* text.replace(/c/g, entity)
RECURSIVE ReplaceAll(_, _, _)
ReplaceAll(text, c, entity) ==
    IF text = <<>> THEN <<>>
    ELSE (IF Head(text) = c THEN entity ELSE <<Head(text)>>)
         \o ReplaceAll(Tail(text), c, entity)

\* an escapeHtml that replaces the ampersand after the other characters
escapeHtml_AmpersandLast(text) ==
    ReplaceAll(
      ReplaceAll(
        ReplaceAll(
          ReplaceAll(
            ReplaceAll(text, "<", <<"&", "l", "t", ";">>),
            ">", <<"&", "g", "t", ";">>),
          "\"", <<"&", "q", "u", "o", "t", ";">>),
        "'", <<"&", "#", "0", "3", "9", ";">>),
      "&", <<"&", "a", "m", "p", ";">>)

\* escapeHtml (html.ts:299-306): five replacements, the ampersand first
escapeHtml(text) ==
    ReplaceAll(
      ReplaceAll(
        ReplaceAll(
          ReplaceAll(
            ReplaceAll(text, "&", <<"&", "a", "m", "p", ";">>),
            "<", <<"&", "l", "t", ";">>),
          ">", <<"&", "g", "t", ";">>),
        "\"", <<"&", "q", "u", "o", "t", ";">>),
      "'", <<"&", "#", "0", "3", "9", ";">>)

\* extractText (html.ts:282-294): the node's value when it has one, else the
\* text of its children
RECURSIVE extractText(_)
extractText(node) ==
    IF node.value # <<>> THEN node.value
    ELSE Flatten([i \in 1..Len(node.children) |-> extractText(node.children[i])])

\* parts.join(sep)
RECURSIVE JoinWith(_, _)
JoinWith(parts, sep) ==
    IF parts = <<>> THEN <<>>
    ELSE IF Len(parts) = 1 THEN parts[1]
    ELSE parts[1] \o <<sep>> \o JoinWith(Tail(parts), sep)

\* renderNode (html.ts:220-277), the node types the fallback can meet
RECURSIVE renderNode(_)
renderNode(node) ==
    LET inner == Flatten([i \in 1..Len(node.children) |-> renderNode(node.children[i])])
    IN  IF node.type = "text" THEN escapeHtml(node.value)
        ELSE IF node.type = "strong" THEN <<"<strong>">> \o inner \o <<"</strong>">>
        ELSE IF node.type = "emphasis" THEN <<"<em>">> \o inner \o <<"</em>">>
        ELSE IF node.type = "inlineCode"
        THEN <<"<code>">> \o escapeHtml(node.value) \o <<"</code>">>
        ELSE <<>>

\* renderAstSimple (html.ts:207-215)
renderAstSimple(tree) ==
    JoinWith([i \in 1..Len(tree.children) |-> renderNode(tree.children[i])], "\n")

\* visit(ast, visitor): every node of the tree, parents before children
RECURSIVE Visit(_)
Visit(node) ==
    <<node>> \o Flatten([i \in 1..Len(node.children) |-> Visit(node.children[i])])

\* what the visitor of astToHtml pushes for one node (html.ts:157-191); <<>>
\* for a node type it has no case for
HtmlPartsOf(node) ==
    IF node.type = "heading"
    THEN << <<"<h1>">> \o escapeHtml(extractText(node)) \o <<"</h1>">> >>
    ELSE IF node.type = "paragraph"
    THEN << <<"<p>">> \o escapeHtml(extractText(node)) \o <<"</p>">> >>
    ELSE IF node.type = "list"
    THEN << <<"<ul>", "\n">>
            \o JoinWith([i \in 1..Len(node.children) |->
                            <<"<li>">> \o escapeHtml(extractText(node.children[i]))
                            \o <<"</li>">>], "\n")
            \o <<"\n", "</ul>">> >>
    ELSE IF node.type = "code"
    THEN << <<"<pre><code>">> \o escapeHtml(node.value) \o <<"</code></pre>">> >>
    ELSE IF node.type = "blockquote"
    THEN << <<"<blockquote>">> \o escapeHtml(extractText(node)) \o <<"</blockquote>">> >>
    ELSE IF node.type = "thematicBreak"
    THEN << <<"<hr>">> >>
    ELSE <<>>

\* astToHtml (html.ts:150-202)
astToHtml(tree) ==
    LET nodes     == Visit(tree)
        htmlParts == Flatten([i \in 1..Len(nodes) |-> HtmlPartsOf(nodes[i])])
    IN  IF Len(htmlParts) = 0 THEN renderAstSimple(tree) ELSE JoinWith(htmlParts, "\n")

\* characters of text node values: the five that are escaped, a letter and
\* the semicolon that ends an entity
TextAlphabet == {"<", ">", "&", "\"", "'", "a", ";"}

TextValues == SeqsUpTo(TextAlphabet, MaxTextLen)

\* the places a text value can sit in a tree
TreesWith(t) ==
    { Node("root", <<>>, <<Node("paragraph", <<>>, <<Text(t)>>)>>),
      Node("root", <<>>, <<Node("heading", <<>>, <<Text(t)>>)>>),
      Node("root", <<>>, <<Node("code", t, <<>>)>>),
      Node("root", <<>>, <<Node("list", <<>>,
          <<Node("listItem", <<>>, <<Node("paragraph", <<>>, <<Text(t)>>)>>)>>)>>),
      Node("root", <<>>, <<Node("blockquote", <<>>,
          <<Node("paragraph", <<>>, <<Text(t)>>)>>)>>),
      Node("root", <<>>, <<Node("paragraph", <<>>,
          <<Text(t), Node("inlineCode", t, <<>>), Node("html", t, <<>>)>>)>>),
      Node("root", <<>>, <<Text(t)>>),
      Node("root", <<>>, <<Node("strong", <<>>, <<Text(t)>>), Node("inlineCode", t, <<>>)>>),
      Node("root", <<>>, <<Node("html", t, <<>>)>>) }

EscapeInit ==
    /\ escTree \in UNION {TreesWith(t) : t \in TextValues}
    /\ escOut = [done |-> FALSE, html |-> <<>>]
    /\ ConvertIdle
    /\ DetectIdle
    /\ ParseIdle
    /\ WrapperIdle
    /\ ScanIdle
    /\ NormIdle
    /\ RegIdle
    /\ SubstIdle

\* astToHtml(escTree) is called and returns
RenderContent ==
    /\ escTree.type = "root"
    /\ ~escOut.done
    /\ escOut' = [done |-> TRUE, html |-> astToHtml(escTree)]
    /\ UNCHANGED <<escTree, outsideEscape>>

EscapeNext == RenderContent

EscapeSpec == EscapeInit /\ [][EscapeNext]_vars

\* the entity of a character, the character itself when it has none
EntityOf(c) ==
    IF c = "&" THEN <<"&", "a", "m", "p", ";">>
    ELSE IF c = "<" THEN <<"&", "l", "t", ";">>
    ELSE IF c = ">" THEN <<"&", "g", "t", ";">>
    ELSE IF c = "\"" THEN <<"&", "q", "u", "o", "t", ";">>
    ELSE IF c = "'" THEN <<"&", "#", "0", "3", "9", ";">>
    ELSE <<c>>

\* a text with every special character replaced by its entity, once
Escaped(text) == Flatten([i \in 1..Len(text) |-> EntityOf(text[i])])

Entities == {EntityOf(c) : c \in {"&", "<", ">", "\"", "'"}}

\* the text values found in a tree
RECURSIVE TextsOf(_)
TextsOf(node) ==
    (IF node.type \in {"text", "code", "inlineCode"} THEN {node.value} ELSE {})
    \cup UNION {TextsOf(node.children[i]) : i \in 1..Len(node.children)}

\* html holds the piece of content at positions k+1..k+Len(piece)
HoldsAt(html, k, piece) ==
    /\ k + Len(piece) <= Len(html)
    /\ \A i \in 1..Len(piece) : html[k + i] = piece[i]

WrapperFormat_DocxAsPdf(fn, format) ==
    IF fn = "convertTo" THEN format
    ELSE IF fn = "convertToMarkdown" THEN "md"
    ELSE IF fn = "convertToHtml" THEN "html"
    ELSE "pdf"

\* the format a wrapper hands to convertTo (engine.ts:318, 328, 338, 348)
WrapperFormat(fn, format) ==
    IF fn = "convertTo" THEN format
    ELSE IF fn = "convertToMarkdown" THEN "md"
    ELSE IF fn = "convertToHtml" THEN "html"
    ELSE IF fn = "convertToPdf" THEN "pdf"
    ELSE "docx"

\* engine.ts:298-301: { ...options, format: [format] }; spreading undefined
\* options leaves only the format
convertToOptions(opts, format) ==
    Options(TRUE, FormatField("array", <<format>>), opts.inputFormat, opts.metadata,
            opts.templateId)

\* engine.ts:303-308: result[format], or the ConversionError when it is
\* undefined
convertToOutput(call, res) ==
    LET format == WrapperFormat(call.fn, call.format)
        output == IF format \in DOMAIN res THEN res[format] ELSE Absent
    IN  IF output = Absent
        THEN [call EXCEPT !.st = "rejected",
                          !.err = ConversionError("Conversion failed", format, "")]
        ELSE [call EXCEPT !.st = "resolved", !.value = output]

\* the calls a caller can make: convertTo with any string as format, and the
\* four shorthands
WrapperCalls ==
    { <<"convertTo", f>> : f \in RequestedFormats }
    \cup { <<"convertToMarkdown", "undefined">>, <<"convertToHtml", "undefined">>,
           <<"convertToPdf", "undefined">>, <<"convertToDocx", "undefined">> }

\* the options argument of a wrapper: undefined, or options without format
WrapperOptions ==
    {NoOptions} \cup
    { Options(TRUE, FormatField("undefined", <<>>), i, m, t) :
        i \in InputFormatFields, m \in MetadataFields, t \in TemplateIdFields }

\* The wrapper has called convert(input, { ...options, format: [format] }) and
\* awaits it.
WrapperInit ==
    /\ \E c \in WrapperCalls, o \in WrapperOptions :
           /\ wrapper = WrapperCall(c[1], c[2], o, "awaiting", Absent, NoError)
           /\ options = convertToOptions(o, WrapperFormat(c[1], c[2]))
    /\ input \in Inputs
    /\ defaultFile \in BOOLEAN
    /\ callNo = 1
    /\ prev = EmptyResult
    /\ phase = "validating"
    /\ inputFormat = "unset"
    /\ ast = NoAst
    /\ next = 1
    /\ tasks = <<>>
    /\ joined = Join("pending", NoError)
    /\ result = EmptyResult
    /\ outcome = Outcome("pending", EmptyResult, NoError)
    /\ calls = Calls(0, 0, 0, 0)
    /\ DetectIdle
    /\ ParseIdle
    /\ EscapeIdle
    /\ ScanIdle
    /\ NormIdle
    /\ RegIdle
    /\ SubstIdle

\* engine.ts:298-308: the awaited convert call has settled; a rejection
\* propagates, a result is unwrapped
WrapperSettles ==
    /\ wrapper.st = "awaiting"
    /\ outcome.st # "pending"
    /\ wrapper' = IF outcome.st = "rejected"
                  THEN [wrapper EXCEPT !.st = "rejected", !.err = outcome.err]
                  ELSE convertToOutput(wrapper, outcome.value)
    /\ UNCHANGED outsideWrapper

WrapperNext ==
    \/ Validate
    \/ Detect
    \/ Dispatch
    \/ ParseDone
    \/ StartConversion
    \/ \E i \in 1..Len(tasks) : TemplateResolved(i)
    \/ \E i \in 1..Len(tasks) : RenderDone(i)
    \/ \E i \in 1..Len(tasks) : MarkdownSettles(i)
    \/ ConvertResumes
    \/ WrapperSettles

WrapperSpec == WrapperInit /\ [][WrapperNext]_vars

\* the format each wrapper stands for
FormatOfWrapper(call) ==
    IF call.fn = "convertTo" THEN call.format
    ELSE IF call.fn = "convertToMarkdown" THEN "md"
    ELSE IF call.fn = "convertToHtml" THEN "html"
    ELSE IF call.fn = "convertToPdf" THEN "pdf"
    ELSE "docx"

\* C18: a wrapper call is a convert call with the same input and options and
\* format = [the wrapper's format]; it resolves with exactly the artifact
\* convert stored under that key, rejects with convert's error whenever
\* convert rejects, and settles in no other way except with a ConversionError
\* tagged with the format when convert resolved without that key.
C18_WrapperRefinesConvert ==
    wrapper.st # "none" =>
        /\ options.present
        /\ options.format = FormatField("array", <<FormatOfWrapper(wrapper)>>)
        /\ options.inputFormat = wrapper.options.inputFormat
        /\ options.metadata = wrapper.options.metadata
        /\ options.templateId = wrapper.options.templateId
        /\ wrapper.st = "resolved" =>
               /\ outcome.st = "resolved"
               /\ wrapper.value = outcome.value[FormatOfWrapper(wrapper)]
               /\ wrapper.value # Absent
               /\ wrapper.value.kind = FormatOfWrapper(wrapper)
        /\ (wrapper.st \in {"resolved", "rejected"} /\ outcome.st = "rejected") =>
               wrapper.st = "rejected" /\ wrapper.err = outcome.err
        /\ (wrapper.st = "rejected" /\ outcome.st # "rejected") =>
               /\ outcome.st = "resolved"
               /\ FormatOfWrapper(wrapper) \notin Keys(outcome.value)
               /\ wrapper.err = ConversionError("Conversion failed", FormatOfWrapper(wrapper), "")
        /\ convertToOutput(wrapper, EmptyResult).st = "rejected"
        /\ convertToOutput(wrapper, EmptyResult).err.kind = "ConversionError"
        /\ convertToOutput(wrapper, EmptyResult).err.tag = FormatOfWrapper(wrapper)

\* convertToDocx has returned the docx artifact of its convert call
C18_Witness ==
    /\ wrapper.fn = "convertToDocx"
    /\ wrapper.st = "resolved"
    /\ outcome.st = "resolved"
    /\ wrapper.value = outcome.value["docx"]
    /\ wrapper.value.kind = "docx"

\* convertTo has rejected with the error of its convert call
C18_RejectWitness ==
    /\ wrapper.fn = "convertTo"
    /\ wrapper.st = "rejected"
    /\ outcome.st = "rejected"
    /\ wrapper.err = outcome.err
    /\ wrapper.err.kind = "TemplateError"

\* a wrapper has rejected although its convert call resolved
C18_AbsentKeyReached ==
    wrapper.st = "rejected" /\ outcome.st = "resolved"

(***************************************************************************)
(* The line scans of extracted text: parseExtractedText (pdf.ts:48-120)    *)
(* and parseRawText of the docx parser (lines 50-98).                      *)
(***************************************************************************)
MaxLines == 4

\* the lines a text is made of
LineAlphabet ==
    {"", "  ", "- a", "1. b", "TITLE", "Two Words", "2 Scope", "text.", "more"}

\* line.trim()
TrimLine(line) == IF line = "  " THEN "" ELSE line

\* line.length
LineLength(line) ==
    CASE line = "" -> 0
      [] line = "  " -> 2
      [] line = "- a" -> 3
      [] line = "1. b" -> 4
      [] line = "TITLE" -> 5
      [] line = "Two Words" -> 9
      [] line = "2 Scope" -> 7
      [] line = "text." -> 5
      [] line = "1.2 Scope" -> 9
      [] line = "1.1.1.1.1.1.1 Deep" -> 18
      [] line = "3 apples and some more fruit in a bag" -> 37
      [] line = "An Introduction To The Subject" -> 30
      [] line = "a closing remark that is rather long for a title" -> 48
      [] line = "2.1 A Numbered Section Title That Runs On For Over Sixty Characters" -> 67
      [] line = "1.2 SCOPE" -> 9
      [] OTHER -> 4

\* line === line.toUpperCase()
IsUpperCase(line) ==
    line \in {"", "  ", "TITLE", "1.2 SCOPE"}

\* line.match(/[.!?,;:]$/)
EndsWithPunctuation(line) ==
    line \in {"text."}

\* /^[A-Z]/.test(line)
StartsWithCapital(line) ==
    line \in {"TITLE", "Two Words", "An Introduction To The Subject"}

\* isTitleCase (pdf.ts:160-169): at least two words, every significant one
\* capitalised
isTitleCase(line) ==
    line \in {"Two Words", "An Introduction To The Subject"}

\* /^\d+(\.\d+)*\s+[A-Z]/.test(line)
IsNumberedSection(line) ==
    line \in {"2 Scope", "1.2 Scope", "1.1.1.1.1.1.1 Deep",
     "2.1 A Numbered Section Title That Runs On For Over Sixty Characters",
     "1.2 SCOPE"}

\* the dots of line.match(/^(\d+)(\.\d+)*/)[0]
SectionDots(line) ==
    CASE line = "1.1.1.1.1.1.1 Deep" -> 6
      [] line \in {"1.2 Scope", "1.2 SCOPE",
                   "2.1 A Numbered Section Title That Runs On For Over Sixty Characters"} -> 1
      [] OTHER -> 0

\* line.match(/^(\d+)(\.\d+)*/) finds a prefix
HasSectionPrefix(line) ==
    line \in {"1. b", "2 Scope", "1.2 Scope", "1.1.1.1.1.1.1 Deep",
     "3 apples and some more fruit in a bag",
     "2.1 A Numbered Section Title That Runs On For Over Sixty Characters",
     "1.2 SCOPE"}

\* the bullet and the numbered pattern (pdf.ts:200-210; the same lines match
\* the two patterns of the docx parser, line 138)
MatchesBullet(line) == line = "- a"

MatchesNumbered(line) == line = "1. b"

\* the line without its list marker (the two replace calls of createList)
StripMarker(item) ==
    IF item = "- a" THEN "a" ELSE IF item = "1. b" THEN "b" ELSE item

\* createParagraph
createParagraph(text) ==
    [type |-> "paragraph", children |-> <<[type |-> "text", value |-> text]>>]

\* createHeading
createHeading(text, depth) ==
    [type |-> "heading", depth |-> depth,
     children |-> <<[type |-> "text", value |-> text]>>]

\* a createList that takes the ordered flag from the marker of the last item
createList_OrderedByLast(items) ==
    [type |-> "list",
     ordered |-> (Len(items) > 0 /\ MatchesNumbered(items[Len(items)])),
     spread |-> FALSE,
     children |-> [k \in 1..Len(items) |->
                      [type |-> "listItem", spread |-> FALSE,
                       children |-> <<createParagraph(<<StripMarker(items[k])>>)>>]]]

\* createList (pdf.ts:235-257, docx parser 165-180): one item per collected
\* line, ordered by the marker of the first
createList(items) ==
    [type |-> "list",
     ordered |-> (Len(items) > 0 /\ MatchesNumbered(items[1])),
     spread |-> FALSE,
     children |-> [k \in 1..Len(items) |->
                      [type |-> "listItem", spread |-> FALSE,
                       children |-> <<createParagraph(<<StripMarker(items[k])>>)>>]]]

\* pdf.ts:200-210
pdf_isListItem(line) == MatchesBullet(line) \/ MatchesNumbered(line)

\* pdf.ts:126-155
pdf_isLikelyHeading(line, nextLine, isFirstContent) ==
    IF pdf_isListItem(line) THEN FALSE
    ELSE IF IsUpperCase(line) /\ LineLength(line) < 60 /\ LineLength(line) > 2 THEN TRUE
    ELSE IF /\ LineLength(line) < 60 /\ nextLine = "" /\ ~EndsWithPunctuation(line)
            /\ (isFirstContent \/ (isTitleCase(line) /\ LineLength(line) < 50))
         THEN TRUE
    ELSE IsNumberedSection(line) /\ LineLength(line) < 80

\* a detectHeadingLevel without the cap at 6
pdf_detectHeadingLevel_NoCap(line) ==
    IF IsUpperCase(line) THEN 1
    ELSE IF HasSectionPrefix(line) THEN SectionDots(line) + 1
    ELSE IF LineLength(line) < 25 THEN 1
    ELSE IF LineLength(line) < 40 THEN 2
    ELSE IF LineLength(line) < 60 THEN 3
    ELSE 4

\* pdf.ts:174-195
pdf_detectHeadingLevel(line) ==
    IF IsUpperCase(line) THEN 1
    ELSE IF HasSectionPrefix(line)
         THEN (IF SectionDots(line) + 1 < 6 THEN SectionDots(line) + 1 ELSE 6)
    ELSE IF LineLength(line) < 25 THEN 1
    ELSE IF LineLength(line) < 40 THEN 2
    ELSE IF LineLength(line) < 60 THEN 3
    ELSE 4

\* children.push(createParagraph(currentParagraphLines.join(' '))) and the
\* reset of the buffer, when the buffer holds a line
flushParagraph(s) ==
    IF Len(s.currentParagraphLines) > 0
    THEN [s EXCEPT
            !.children = Append(@, createParagraph(
                JoinWith([k \in 1..Len(s.currentParagraphLines) |->
                             <<s.currentParagraphLines[k]>>], " "))),
            !.currentParagraphLines = <<>>]
    ELSE s

\* a list buffer that is never flushed inside the loop
flushList_Never(s) == s

\* pdf.ts:68-72 and 89-93: the list buffer becomes one list node
flushList(s) ==
    IF s.inList /\ Len(s.listItems) > 0
    THEN [s EXCEPT !.children = Append(@, createList(s.listItems)),
                   !.listItems = <<>>,
                   !.inList = FALSE]
    ELSE s

\* a blank line that leaves the list buffer alone
pdf_blankLine_KeepsList(s) == flushParagraph(s)

\* pdf.ts:61-74: the blank line
pdf_blankLine(s) == flushList(flushParagraph(s))

\* pdf.ts:55-107: one turn of the loop of parseExtractedText
pdf_scanLine(s) ==
    LET trimmedLine == TrimLine(s.lines[s.i])
        nextLine == IF s.i + 1 <= Len(s.lines) THEN TrimLine(s.lines[s.i + 1]) ELSE ""
        flushed == flushList(s)
    IN  IF trimmedLine = "" THEN pdf_blankLine(s)
        ELSE IF pdf_isListItem(trimmedLine)
             THEN [flushParagraph(s) EXCEPT !.inList = TRUE,
                                            !.listItems = Append(@, trimmedLine)]
        ELSE IF pdf_isLikelyHeading(trimmedLine, nextLine,
                                    Len(flushed.currentParagraphLines) = 0)
             THEN [flushParagraph(flushed) EXCEPT
                     !.children = Append(@, createHeading(<<trimmedLine>>,
                                             pdf_detectHeadingLevel(trimmedLine)))]
        ELSE [flushed EXCEPT !.currentParagraphLines = Append(@, trimmedLine)]

\* a final flush that forgets the list buffer
pdf_scanEnd_DropsList(s) == flushParagraph(s)

\* pdf.ts:109-117: what is left in the buffers after the last line
pdf_scanEnd(s) ==
    LET p == flushParagraph(s)
    IN  IF Len(p.listItems) > 0
        THEN [p EXCEPT !.children = Append(@, createList(p.listItems))]
        ELSE p

\* docx parser, line 138
docx_isListItem(line) == MatchesBullet(line) \/ MatchesNumbered(line)

\* docx parser, lines 103-114
docx_isLikelyHeading(line, isFirstContent) ==
    IF /\ LineLength(line) < 80
       /\ ~EndsWithPunctuation(line)
       /\ ~docx_isListItem(line)
       /\ (isFirstContent \/ IsUpperCase(line) \/ StartsWithCapital(line))
    THEN isFirstContent /\ LineLength(line) < 60
    ELSE FALSE

\* docx parser, lines 119-132
docx_detectHeadingLevel(line) ==
    IF IsUpperCase(line) /\ LineLength(line) < 40 THEN 1
    ELSE IF LineLength(line) < 30 THEN 1
    ELSE IF LineLength(line) < 50 THEN 2
    ELSE 3

\* docx parser, lines 59-90: one turn of the loop of parseRawText
docx_scanLine(s) ==
    LET trimmedLine == TrimLine(s.lines[s.i])
    IN  IF trimmedLine = "" THEN flushParagraph(s)
        ELSE IF docx_isLikelyHeading(trimmedLine, Len(s.currentParagraphLines) = 0)
             THEN [flushParagraph(s) EXCEPT
                     !.children = Append(@, createHeading(<<trimmedLine>>,
                                             docx_detectHeadingLevel(trimmedLine)))]
        ELSE IF docx_isListItem(trimmedLine)
             THEN [flushParagraph(s) EXCEPT
                     !.children = Append(@, createList(<<trimmedLine>>))]
        ELSE [s EXCEPT !.currentParagraphLines = Append(@, trimmedLine)]

\* docx parser, lines 92-95
docx_scanEnd(s) == flushParagraph(s)

\* text.split('\n') of an extracted text
ScanTexts == UNION {SeqsOfLen(LineAlphabet, n) : n \in 1..MaxLines}

ScanInit ==
    /\ \E path \in {"pdf", "docx"}, lines \in ScanTexts :
           scan = ScanState(path, lines, 1, <<>>, <<>>, <<>>, FALSE, FALSE)
    /\ ConvertIdle
    /\ DetectIdle
    /\ ParseIdle
    /\ EscapeIdle
    /\ WrapperIdle
    /\ NormIdle
    /\ RegIdle
    /\ SubstIdle

\* the loop of parseExtractedText takes its next line
PdfScanLine ==
    /\ scan.path = "pdf"
    /\ ~scan.done
    /\ scan.i <= Len(scan.lines)
    /\ scan' = [pdf_scanLine(scan) EXCEPT !.i = scan.i + 1]
    /\ UNCHANGED outsideScan

\* the loop of parseExtractedText is over
PdfScanEnd ==
    /\ scan.path = "pdf"
    /\ ~scan.done
    /\ scan.i > Len(scan.lines)
    /\ scan' = [pdf_scanEnd(scan) EXCEPT !.done = TRUE]
    /\ UNCHANGED outsideScan

\* the loop of parseRawText takes its next line
DocxScanLine ==
    /\ scan.path = "docx"
    /\ ~scan.done
    /\ scan.i <= Len(scan.lines)
    /\ scan' = [docx_scanLine(scan) EXCEPT !.i = scan.i + 1]
    /\ UNCHANGED outsideScan

\* the loop of parseRawText is over
DocxScanEnd ==
    /\ scan.path = "docx"
    /\ ~scan.done
    /\ scan.i > Len(scan.lines)
    /\ scan' = [docx_scanEnd(scan) EXCEPT !.done = TRUE]
    /\ UNCHANGED outsideScan

ScanNext == PdfScanLine \/ PdfScanEnd \/ DocxScanLine \/ DocxScanEnd

ScanSpec == ScanInit /\ [][ScanNext]_vars

\* the lines joined by single spaces
RECURSIVE SpaceJoined(_)
SpaceJoined(lines) ==
    IF Len(lines) = 0 THEN <<>>
    ELSE IF Len(lines) = 1 THEN <<lines[1]>>
    ELSE <<lines[1], " ">> \o SpaceJoined(Tail(lines))

\* the pdf scan is at a blank line
AtBlankLine ==
    /\ scan.path = "pdf"
    /\ ~scan.done
    /\ scan.i <= Len(scan.lines)
    /\ TrimLine(scan.lines[scan.i]) = ""

\* the nodes a blank line has to emit for the buffers it finds
IsFlushOf(emitted, paragraphLines, items) ==
    LET np == IF Len(paragraphLines) > 0 THEN 1 ELSE 0
        nl == IF Len(items) > 0 THEN 1 ELSE 0
    IN  /\ Len(emitted) = np + nl
        /\ np = 1 =>
               /\ emitted[1].type = "paragraph"
               /\ Len(emitted[1].children) = 1
               /\ emitted[1].children[1].type = "text"
               /\ emitted[1].children[1].value = SpaceJoined(paragraphLines)
        /\ nl = 1 =>
               /\ emitted[np + 1].type = "list"
               /\ Len(emitted[np + 1].children) = Len(items)

\* C19: in the scan of parseExtractedText a blank line appends to the children
\* exactly one paragraph holding the buffered lines joined by single spaces
\* when the paragraph buffer is non-empty, exactly one list node when the list
\* buffer is non-empty, nothing when both are empty, and leaves both buffers
\* empty.
C19_BlankLineFlushes ==
    [][ AtBlankLine =>
          /\ Len(scan'.children) >= Len(scan.children)
          /\ SubSeq(scan'.children, 1, Len(scan.children)) = scan.children
          /\ IsFlushOf(SubSeq(scan'.children, Len(scan.children) + 1, Len(scan'.children)),
                       scan.currentParagraphLines, scan.listItems)
          /\ scan'.currentParagraphLines = <<>>
          /\ scan'.listItems = <<>> ]_vars

\* the line before the position of the scan was blank
AfterBlankLine ==
    /\ scan.path = "pdf"
    /\ scan.i > 1
    /\ scan.i <= Len(scan.lines) + 1
    /\ TrimLine(scan.lines[scan.i - 1]) = ""
    /\ scan.currentParagraphLines = <<>>
    /\ scan.listItems = <<>>

\* a blank line has flushed two buffered lines as one paragraph
C19_Witness ==
    /\ AfterBlankLine
    /\ scan.i = 4
    /\ scan.lines[1] = "text."
    /\ scan.lines[2] = "more"
    /\ scan.children = <<createParagraph(<<"text.", " ", "more">>)>>

\* a blank line has flushed two buffered items as one list
C19_ListWitness ==
    /\ AfterBlankLine
    /\ scan.i = 4
    /\ Len(scan.children) = 1
    /\ scan.children[1].type = "list"
    /\ Len(scan.children[1].children) = 2

\* a blank line met two empty buffers and emitted nothing
C19_EmptyWitness ==
    /\ AfterBlankLine
    /\ scan.i = 3
    /\ TrimLine(scan.lines[1]) = ""
    /\ scan.children = <<>>

\* is the line a list item for the scan in progress
IsItemLine(line) ==
    IF scan.path = "pdf" THEN pdf_isListItem(TrimLine(line)) ELSE docx_isListItem(TrimLine(line))

\* the lengths of the maximal runs of consecutive list-item lines
RECURSIVE ListRuns(_, _)
ListRuns(lines, run) ==
    IF Len(lines) = 0 THEN (IF run > 0 THEN <<run>> ELSE <<>>)
    ELSE IF IsItemLine(lines[1]) THEN ListRuns(Tail(lines), run + 1)
    ELSE (IF run > 0 THEN <<run>> ELSE <<>>) \o ListRuns(Tail(lines), 0)

\* the number of items of each list node, in order
RECURSIVE ListSizes(_)
ListSizes(children) ==
    IF Len(children) = 0 THEN <<>>
    ELSE (IF children[1].type = "list" THEN <<Len(children[1].children)>> ELSE <<>>)
         \o ListSizes(Tail(children))

\* every run of consecutive list-item lines became one list node with one
\* item per line
RunsCollected == scan.done => ListSizes(scan.children) = ListRuns(scan.lines, 0)

\* the scan of parseExtractedText collects the runs
PdfRunsCollected == scan.path = "pdf" => RunsCollected

\* C20: in the raw-text fallback of the docx parser, as in the pdf path,
\* consecutive list-item lines with no blank line between them end up in one
\* list node holding one item per line.
C20_ListRunsCollected == scan.path \in {"pdf", "docx"} => RunsCollected

\* parseRawText has scanned two adjacent list-item lines
C20_TwoItemsScanned ==
    /\ scan.path = "docx"
    /\ scan.done
    /\ scan.lines = <<"- a", "1. b">>
    /\ Len(scan.children) = 2
    /\ Len(scan.children[1].children) = 1

\* no line before the one the scan is at has content
IsFirstContentLine ==
    \A k \in 1..(scan.i - 1) : TrimLine(scan.lines[k]) = ""

\* the line after the one the scan is at is blank (or there is none)
FollowedByBlank ==
    scan.i + 1 <= Len(scan.lines) => TrimLine(scan.lines[scan.i + 1]) = ""

\* the three heading rules, for the line the scan is at
HeadingRule(line) ==
    \/ IsUpperCase(line) /\ LineLength(line) > 2 /\ LineLength(line) < 60
    \/ /\ LineLength(line) < 60
       /\ FollowedByBlank
       /\ ~EndsWithPunctuation(line)
       /\ (IsFirstContentLine \/ (isTitleCase(line) /\ LineLength(line) < 50))
    \/ IsNumberedSection(line) /\ LineLength(line) < 80

\* the pdf scan is at a line that is neither blank nor a list item
AtCandidateLine ==
    /\ scan.path = "pdf"
    /\ ~scan.done
    /\ scan.i <= Len(scan.lines)
    /\ TrimLine(scan.lines[scan.i]) # ""
    /\ ~pdf_isListItem(TrimLine(scan.lines[scan.i]))

\* C21: a line of the pdf scan that is neither blank nor a list item becomes a
\* heading exactly when one of the three heading rules holds for it, where the
\* first-content alternative of rule (b) means the first content line of the
\* document; otherwise it is appended to the paragraph buffer.
C21_HeadingRules ==
    [][ AtCandidateLine =>
          LET line == TrimLine(scan.lines[scan.i])
              emitted == /\ Len(scan'.children) > Len(scan.children)
                         /\ scan'.children[Len(scan'.children)].type = "heading"
                         /\ scan'.children[Len(scan'.children)].children[1].value = <<line>>
              buffered == /\ Len(scan'.currentParagraphLines) > 0
                          /\ scan'.currentParagraphLines[Len(scan'.currentParagraphLines)] = line
          IN  /\ emitted <=> HeadingRule(line)
              /\ buffered <=> ~HeadingRule(line) ]_vars

\* a short plain line that is not the first content line has become a heading
C21_LaterLineIsHeading ==
    /\ scan.path = "pdf"
    /\ scan.i = 3
    /\ scan.lines[1] = "TITLE"
    /\ scan.lines[2] = "more"
    /\ Len(scan.children) = 2
    /\ scan.children[2].type = "heading"
    /\ scan.children[2].children[1].value = <<"more">>

\* the maximal runs of consecutive list-item lines of a text, in order
RECURSIVE ItemRuns(_, _)
ItemRuns(lines, run) ==
    IF Len(lines) = 0 THEN (IF Len(run) > 0 THEN <<run>> ELSE <<>>)
    ELSE IF pdf_isListItem(TrimLine(lines[1]))
         THEN ItemRuns(Tail(lines), Append(run, TrimLine(lines[1])))
    ELSE (IF Len(run) > 0 THEN <<run>> ELSE <<>>) \o ItemRuns(Tail(lines), <<>>)

IsList(node) == node.type = "list"

\* the line opens with a digit marker
HasDigitMarker(line) == line = "1. b"

\* what a list-item line says after its marker
AfterMarker(line) ==
    CASE line = "- a" -> "a"
      [] line = "1. b" -> "b"
      [] OTHER -> line

\* C22: when parseExtractedText is done, every run of consecutive list-item
\* lines has become one list node whose ordered flag is the marker style of
\* the first line of the run alone (a later line of another style neither
\* changes it nor opens a new list), with one item per line, each holding the
\* line without its marker.
C22_OrderedByFirstItem ==
    (scan.path = "pdf" /\ scan.done) =>
        LET runs == ItemRuns(scan.lines, <<>>)
            lists == SelectSeq(scan.children, IsList)
        IN  /\ Len(lists) = Len(runs)
            /\ \A k \in 1..Len(lists) :
                   /\ lists[k].ordered = HasDigitMarker(runs[k][1])
                   /\ Len(lists[k].children) = Len(runs[k])
                   /\ \A j \in 1..Len(runs[k]) :
                          /\ lists[k].children[j].type = "listItem"
                          /\ Len(lists[k].children[j].children) = 1
                          /\ lists[k].children[j].children[1] =
                                 createParagraph(<<AfterMarker(runs[k][j])>>)
                          /\ ~pdf_isListItem(AfterMarker(runs[k][j]))

\* a numbered line followed by a bullet line has become one ordered list of two
C22_Witness ==
    /\ scan.path = "pdf"
    /\ scan.done
    /\ scan.lines = <<"1. b", "- a">>
    /\ Len(scan.children) = 1
    /\ scan.children[1].type = "list"
    /\ scan.children[1].ordered
    /\ Len(scan.children[1].children) = 2
    /\ scan.children[1].children[2].children[1].children[1].value = <<"a">>

\* a bullet line followed by a numbered line has become one unordered list
C22_UnorderedWitness ==
    /\ scan.path = "pdf"
    /\ scan.done
    /\ scan.lines = <<"- a", "1. b">>
    /\ Len(scan.children) = 1
    /\ ~scan.children[1].ordered
    /\ Len(scan.children[1].children) = 2

(***************************************************************************)
(* parseExtractedText on texts with longer lines and dotted section        *)
(* numbers, for the depth detectHeadingLevel gives (pdf.ts:177-195).       *)
(***************************************************************************)
MaxHeadingLines == 2

\* the lines of these texts
HeadingAlphabet ==
    LineAlphabet \cup
    {"1.2 Scope", "1.1.1.1.1.1.1 Deep", "3 apples and some more fruit in a bag",
     "An Introduction To The Subject",
     "a closing remark that is rather long for a title",
     "2.1 A Numbered Section Title That Runs On For Over Sixty Characters",
     "1.2 SCOPE"}

HeadingTexts == UNION {SeqsOfLen(HeadingAlphabet, n) : n \in 1..MaxHeadingLines}

HeadingInit ==
    /\ \E lines \in HeadingTexts :
           scan = ScanState("pdf", lines, 1, <<>>, <<>>, <<>>, FALSE, FALSE)
    /\ ConvertIdle
    /\ DetectIdle
    /\ ParseIdle
    /\ EscapeIdle
    /\ WrapperIdle
    /\ NormIdle
    /\ RegIdle
    /\ SubstIdle

HeadingNext == PdfScanLine \/ PdfScanEnd

HeadingSpec == HeadingInit /\ [][HeadingNext]_vars

IsHeading(node) == node.type = "heading"

\* the depth the three rules give a heading line
DepthByRules(line) ==
    IF IsUpperCase(line) THEN 1
    ELSE IF HasSectionPrefix(line)
         THEN (IF SectionDots(line) + 1 > 6 THEN 6 ELSE SectionDots(line) + 1)
    ELSE IF LineLength(line) < 25 THEN 1
    ELSE IF LineLength(line) < 40 THEN 2
    ELSE IF LineLength(line) < 60 THEN 3
    ELSE 4

\* C23: every heading parseExtractedText has emitted has a depth in 1..6: 1
\* for an upper-case line, else the dots of its numeric prefix plus one capped
\* at 6, else 1, 2, 3 or 4 by the length of the line (<25, <40, <60, longer).
C23_HeadingDepth ==
    scan.path = "pdf" =>
        \A k \in 1..Len(scan.children) :
            IsHeading(scan.children[k]) =>
                /\ scan.children[k].depth \in 1..6
                /\ scan.children[k].depth =
                       DepthByRules(scan.children[k].children[1].value[1])

\* a section line with six dots has become a heading of depth 6
C23_Witness ==
    /\ scan.path = "pdf"
    /\ Len(scan.children) > 0
    /\ scan.children[1] = createHeading(<<"1.1.1.1.1.1.1 Deep">>, 6)

\* a first line of 48 characters before a blank line has become a heading of
\* depth 3, and an upper-case section line one of depth 1
C23_LengthWitness ==
    /\ scan.path = "pdf"
    /\ Len(scan.children) > 0
    /\ \/ scan.children[1] =
              createHeading(<<"a closing remark that is rather long for a title">>, 3)
       \/ scan.children[1] = createHeading(<<"1.2 SCOPE">>, 1)

\* a heading of depth 4 has been emitted
C23_DepthFourReached ==
    \E k \in 1..Len(scan.children) :
        IsHeading(scan.children[k]) /\ scan.children[k].depth = 4

(***************************************************************************)
(* Order and conservation of content in parseExtractedText.                *)
(***************************************************************************)
\* the elements of a joined text that are lines (every other one is a space)
RECURSIVE JoinedLines(_)
JoinedLines(text) ==
    IF Len(text) = 0 THEN <<>>
    ELSE IF Len(text) = 1 THEN <<text[1]>>
    ELSE <<text[1]>> \o JoinedLines(SubSeq(text, 3, Len(text)))

\* what the blocks say, block by block: a heading its line, a paragraph its
\* lines, a list the text of each item
RECURSIVE ContentOf(_)
ContentOf(children) ==
    IF Len(children) = 0 THEN <<>>
    ELSE LET node == children[1]
             own == IF node.type = "list"
                    THEN [j \in 1..Len(node.children) |->
                             node.children[j].children[1].children[1].value[1]]
                    ELSE JoinedLines(node.children[1].value)
         IN  own \o ContentOf(Tail(children))

\* what the lines say, line by line: nothing for a blank line, the text after
\* the marker for a list-item line, the trimmed line otherwise
RECURSIVE LinesContent(_)
LinesContent(lines) ==
    IF Len(lines) = 0 THEN <<>>
    ELSE (IF TrimLine(lines[1]) = "" THEN <<>>
          ELSE IF pdf_isListItem(TrimLine(lines[1])) THEN <<AfterMarker(TrimLine(lines[1]))>>
          ELSE <<TrimLine(lines[1])>>)
         \o LinesContent(Tail(lines))

\* the buffered list items, without their markers
BufferedItems == [j \in 1..Len(scan.listItems) |-> AfterMarker(scan.listItems[j])]

\* C25: while parseExtractedText scans, the paragraph buffer and the list
\* buffer are never both non-empty, and the blocks emitted so far followed by
\* whatever is buffered say what the lines scanned so far say, in the order of
\* the lines; after the final flush the blocks alone do.
C25_BuffersExclusiveInOrder ==
    scan.path = "pdf" =>
        IF scan.done
        THEN ContentOf(scan.children) = LinesContent(scan.lines)
        ELSE /\ ~(Len(scan.currentParagraphLines) > 0 /\ Len(scan.listItems) > 0)
             /\ ContentOf(scan.children) \o scan.currentParagraphLines \o BufferedItems
                    = LinesContent(SubSeq(scan.lines, 1, scan.i - 1))

\* a paragraph, a list and a paragraph were emitted in the order of their lines
C25_Witness ==
    /\ scan.path = "pdf"
    /\ scan.done
    /\ scan.lines = <<"more", "- a", "1. b", "text.">>
    /\ Len(scan.children) = 3
    /\ scan.children[1] = createParagraph(<<"more">>)
    /\ scan.children[2].type = "list"
    /\ scan.children[3] = createParagraph(<<"text.">>)

\* a list is buffered while the paragraph before it has already been emitted
C25_BufferedWitness ==
    /\ scan.path = "pdf"
    /\ ~scan.done
    /\ Len(scan.listItems) = 2
    /\ scan.currentParagraphLines = <<>>
    /\ Len(scan.children) = 1
    /\ scan.children[1].type = "paragraph"

\* how often x occurs in q
RECURSIVE Occurrences(_, _)
Occurrences(x, q) ==
    IF Len(q) = 0 THEN 0
    ELSE (IF q[1] = x THEN 1 ELSE 0) + Occurrences(x, Tail(q))

\* C26: after the scan of parseExtractedText and its final flush, every
\* non-blank line is found in exactly one emitted block (as a heading, a list
\* item or one segment of a paragraph), nothing is found that no line said,
\* no paragraph has empty text and no list is without items.
C26_ContentConserved ==
    (scan.path = "pdf" /\ scan.done) =>
        LET said == LinesContent(scan.lines)
            found == ContentOf(scan.children)
        IN  /\ Len(found) = Len(said)
            /\ \A x \in {said[k] : k \in 1..Len(said)} \cup {found[k] : k \in 1..Len(found)} :
                   Occurrences(x, found) = Occurrences(x, said)
            /\ \A k \in 1..Len(scan.children) :
                   /\ scan.children[k].type = "paragraph" =>
                          Len(scan.children[k].children[1].value) > 0
                   /\ scan.children[k].type = "list" =>
                          Len(scan.children[k].children) > 0

\* a text that ends in a list right after a paragraph line has been flushed:
\* both are in the tree
C26_Witness ==
    /\ scan.path = "pdf"
    /\ scan.done
    /\ scan.lines = <<"text.", "more", "- a", "1. b">>
    /\ Len(scan.children) = 2
    /\ scan.children[1] = createParagraph(<<"text.", " ", "more">>)
    /\ Len(scan.children[2].children) = 2

\* a text of blank lines only gives an empty root
C26_BlankWitness ==
    /\ scan.path = "pdf"
    /\ scan.done
    /\ Len(scan.lines) = 3
    /\ LinesContent(scan.lines) = <<>>
    /\ scan.children = <<>>

(***************************************************************************)
(* detectHeadings of the markdown parser (lines 63-103): the setext step   *)
(* and the first-line title heuristic of normalizeText.                    *)
(***************************************************************************)
MaxNormLines == 3

\* the lines a text to normalise is made of; LongLine stands for a line of 60
\* characters without terminal punctuation
NormAlphabet ==
    {"", "  ", "Title", "A sentence.", "- item", "* item", "1. item", "BULLET item",
     "# Head", "===", "---", "LongLine"}

\* line.trim().length
TrimmedLength(line) ==
    CASE line \in {"", "  "} -> 0
      [] line = "Title" -> 5
      [] line = "A sentence." -> 11
      [] line \in {"- item", "* item", "# Head"} -> 6
      [] line \in {"1. item", "BULLET item"} -> 7
      [] line \in {"===", "---"} -> 3
      [] OTHER -> 60

\* nextLine is a non-empty string
Truthy(line) == line # ""

\* /^=+\s*$/.test(nextLine)
IsEqualsUnderline(line) == line = "==="

\* /^-+\s*$/.test(nextLine)
IsDashUnderline(line) == line = "---"

\* line.trim().match(/[.!?,;:]$/)
TrimmedEndsWithPunctuation(line) == line = "A sentence."

\* line.trim().startsWith('-')
StartsWithDash(line) == line \in {"- item", "---"}

\* line.trim().startsWith('*')
StartsWithStar(line) == line = "* item"

\* line.trim().match(/^\d+[.)]/)
StartsWithOrdinal(line) == line = "1. item"

\* line.startsWith('#')
StartsWithHash(line) == line = "# Head"

\* lines 85-91
looksLikeHeading(line) ==
    /\ TrimmedLength(line) > 0
    /\ TrimmedLength(line) < 60
    /\ ~TrimmedEndsWithPunctuation(line)
    /\ ~StartsWithDash(line)
    /\ ~StartsWithStar(line)
    /\ ~StartsWithOrdinal(line)

\* lines 67-101: one turn of the loop of detectHeadings; an output line is the
\* sequence of its parts
detectHeadingsStep(s) ==
    LET line == s.lines[s.i]
        hasNext == s.i + 1 <= Len(s.lines) /\ Truthy(s.lines[s.i + 1])
    IN  IF hasNext /\ IsEqualsUnderline(s.lines[s.i + 1])
        THEN [s EXCEPT !.result = Append(@, <<"# ", line>>), !.i = @ + 2]
        ELSE IF hasNext /\ IsDashUnderline(s.lines[s.i + 1]) /\ TrimmedLength(line) > 0
        THEN [s EXCEPT !.result = Append(@, <<"## ", line>>), !.i = @ + 2]
        ELSE IF s.i = 1 /\ looksLikeHeading(line) /\ ~StartsWithHash(line)
        THEN [s EXCEPT !.result = Append(@, <<"# ", line>>), !.i = @ + 1]
        ELSE [s EXCEPT !.result = Append(@, <<line>>), !.i = @ + 1]

NormTexts == UNION {SeqsOfLen(NormAlphabet, n) : n \in 1..MaxNormLines}

NormInit ==
    /\ \E lines \in NormTexts : norm = NormState(lines, 1, <<>>, FALSE)
    /\ ConvertIdle
    /\ DetectIdle
    /\ ParseIdle
    /\ EscapeIdle
    /\ WrapperIdle
    /\ ScanIdle
    /\ RegIdle
    /\ SubstIdle

\* the loop of detectHeadings takes its next line (and the underline after it)
NormLine ==
    /\ ~norm.done
    /\ norm.i >= 1
    /\ norm.i <= Len(norm.lines)
    /\ norm' = detectHeadingsStep(norm)
    /\ UNCHANGED outsideNorm

\* the loop is over: result.join('\n') is returned
NormEnd ==
    /\ ~norm.done
    /\ norm.i > Len(norm.lines)
    /\ norm' = [norm EXCEPT !.done = TRUE]
    /\ UNCHANGED outsideNorm

NormNext == NormLine \/ NormEnd

NormSpec == NormInit /\ [][NormNext]_vars

\* the line is a list item: a hyphen, star or ordinal marker, or a bullet glyph
IsListItemLine(line) == line \in {"- item", "* item", "1. item", "BULLET item"}

\* the line is a heading already
IsHeadingLine(line) == line = "# Head"

\* the setext step consumes the line the loop is at
SetextApplies ==
    /\ norm.i + 1 <= Len(norm.lines)
    /\ \/ norm.lines[norm.i + 1] = "==="
       \/ norm.lines[norm.i + 1] = "---" /\ TrimmedLength(norm.lines[norm.i]) > 0

\* the title rule, for the line the loop is at
TitleRule(line) ==
    /\ norm.i = 1
    /\ TrimmedLength(line) > 0
    /\ TrimmedLength(line) < 60
    /\ ~TrimmedEndsWithPunctuation(line)
    /\ ~IsListItemLine(line)
    /\ ~IsHeadingLine(line)

\* C24: a line that the setext step leaves alone is rewritten by detectHeadings
\* to a depth-1 heading line exactly when it is the first line of the text, is
\* not blank, is shorter than 60 characters, has no terminal punctuation and is
\* neither a list item nor a heading already; every other such line is passed
\* on unchanged.
C24_FirstLineTitle ==
    [][ (~norm.done /\ norm.i >= 1 /\ norm.i <= Len(norm.lines) /\ ~SetextApplies) =>
          LET line == norm.lines[norm.i]
              pushed == norm'.result[Len(norm'.result)]
          IN  /\ Len(norm'.result) = Len(norm.result) + 1
              /\ IF TitleRule(line) THEN pushed = <<"# ", line>> ELSE pushed = <<line>> ]_vars

\* a first line that opens with a bullet glyph has been made a heading
C24_GlyphItemPromoted ==
    /\ norm.done
    /\ norm.lines = <<"BULLET item", "BULLET item">>
    /\ norm.result = << <<"# ", "BULLET item">>, <<"BULLET item">> >>

\* a plain first line has been made a heading and the same line further down
\* has not
C24_TitlePromoted ==
    /\ norm.done
    /\ norm.lines = <<"Title", "", "Title">>
    /\ norm.result = << <<"# ", "Title">>, <<"">>, <<"Title">> >>

(***************************************************************************)
(* Each block once in the content of astToHtml.                            *)
(***************************************************************************)
RECURSIVE SumOf(_)
SumOf(q) == IF Len(q) = 0 THEN 0 ELSE q[1] + SumOf(Tail(q))

\* the paragraphs of a tree that are blocks of their own: those not inside a
\* list item or a blockquote
RECURSIVE OwnParagraphs(_)
OwnParagraphs(node) ==
    IF node.type \in {"listItem", "blockquote"} THEN 0
    ELSE (IF node.type = "paragraph" THEN 1 ELSE 0)
         + SumOf([i \in 1..Len(node.children) |-> OwnParagraphs(node.children[i])])

\* the nodes of one type in a tree
RECURSIVE NodesOfType(_, _)
NodesOfType(node, type) ==
    (IF node.type = type THEN 1 ELSE 0)
    + SumOf([i \in 1..Len(node.children) |-> NodesOfType(node.children[i], type)])

\* C27: the content astToHtml returns holds one p element for every paragraph
\* that is a block of its own, one li per list item and one blockquote per
\* blockquote; a paragraph inside a list item or a blockquote is rendered
\* inside that element only and gets no p element of its own.
C27_EachBlockOnce ==
    (escOut.done /\ NodesOfType(escTree, "list") + NodesOfType(escTree, "blockquote")
                    + NodesOfType(escTree, "paragraph") > 0) =>
        /\ Occurrences("<p>", escOut.html) = OwnParagraphs(escTree)
        /\ Occurrences("<li>", escOut.html) = NodesOfType(escTree, "listItem")
        /\ Occurrences("<blockquote>", escOut.html) = NodesOfType(escTree, "blockquote")

\* the text of a list item has been rendered in its li and again in a p
C27_ItemRenderedTwice ==
    /\ escOut.done
    /\ escTree = Node("root", <<>>, <<Node("list", <<>>,
           <<Node("listItem", <<>>, <<Node("paragraph", <<>>, <<Text(<<"a">>)>>)>>)>>)>>)
    /\ escOut.html = <<"<ul>", "\n", "<li>", "a", "</li>", "\n", "</ul>", "\n", "<p>", "a", "</p>">>

(***************************************************************************)
(* convert calls that name a template: well-formed arguments, a tree that  *)
(* parses and metadata every renderer accepts, so that only the lookup of  *)
(* getTemplateForRendering can fail.                                       *)
(***************************************************************************)
\* options.templateId of these calls: the two registered ids and an unknown one
LookupIds == {"corp-html", "corp-pdf", "missing"}

LookupOptions ==
    { Options(TRUE, FormatField("array", l), i, m, t) :
        l \in SeqsUpTo(OutputFormats, MaxFormats) \ {<<>>},
        i \in {"undefined", "md"},
        m \in {MetadataField("undefined", "", "undefined"), MetadataField("object", "T", "array")},
        t \in LookupIds }

LookupInit ==
    /\ input \in {StringInput(PlainText), StringInput(HtmlText)}
    /\ options \in LookupOptions
    /\ defaultFile \in BOOLEAN
    /\ callNo = 1
    /\ prev = EmptyResult
    /\ phase = "validating"
    /\ inputFormat = "unset"
    /\ ast = NoAst
    /\ next = 1
    /\ tasks = <<>>
    /\ joined = Join("pending", NoError)
    /\ result = EmptyResult
    /\ outcome = Outcome("pending", EmptyResult, NoError)
    /\ calls = Calls(0, 0, 0, 0)
    /\ DetectIdle
    /\ ParseIdle
    /\ EscapeIdle
    /\ WrapperIdle
    /\ ScanIdle
    /\ NormIdle
    /\ RegIdle
    /\ SubstIdle

LookupNext ==
    \/ Validate
    \/ Detect
    \/ Dispatch
    \/ ParseDone
    \/ StartConversion
    \/ \E i \in 1..Len(tasks) : TemplateResolved(i)
    \/ \E i \in 1..Len(tasks) : RenderDone(i)
    \/ \E i \in 1..Len(tasks) : MarkdownSettles(i)
    \/ ConvertResumes

LookupSpec == LookupInit /\ [][LookupNext]_vars

\* the requested formats that take a template
TemplatedFormats == {Requested[k] : k \in 1..Len(Requested)} \cap {"html", "pdf", "docx"}

\* the id names a registered template
IsRegistered(id) == \E t \in templateRegistry : t.id = id

\* the id names a registered template of that type
IsRegisteredAs(id, type) == \E t \in templateRegistry : t.id = id /\ t.type = type

\* a template lookup of the call has to fail
LookupMustFail ==
    /\ TemplatedFormats # {}
    /\ \/ ~IsRegistered(options.templateId)
       \/ \E f \in TemplatedFormats : ~IsRegisteredAs(options.templateId, f)

\* the call names a template and nothing but a lookup can make it fail
LookupCase ==
    /\ options.present
    /\ options.templateId # "undefined"
    /\ ~ViolatesValidation(input, options)
    /\ ~KeywordsJoinThrows(options.metadata)

\* C28: a convert call that names a template (and has nothing else wrong)
\* rejects with a TemplateError exactly when it requests a format among html,
\* pdf, docx and the id is not registered or the registered template's type
\* differs from such a requested format; otherwise it resolves.  A request for
\* md alone resolves whatever the id, a request for two different formats
\* among html, pdf, docx rejects whatever the id.
C28_TemplateLookup ==
    (LookupCase /\ outcome.st # "pending") =>
        /\ (outcome.st = "rejected") <=> LookupMustFail
        /\ outcome.st = "rejected" =>
               /\ outcome.err.kind = "TemplateError"
               /\ outcome.err.tag = options.templateId
        /\ TemplatedFormats = {} => outcome.st = "resolved"
        /\ Cardinality(TemplatedFormats) >= 2 => outcome.st = "rejected"

\* html and pdf were requested with the registered html template: rejected for
\* the pdf lookup
C28_Witness ==
    /\ LookupCase
    /\ options.templateId = "corp-html"
    /\ Requested = <<"html", "pdf">>
    /\ outcome.st = "rejected"
    /\ outcome.err.kind = "TemplateError"
    /\ outcome.err.message = "Template type mismatch"

\* md alone was requested with an unknown id: resolved
C28_MdWitness ==
    /\ LookupCase
    /\ options.templateId = "missing"
    /\ Requested = <<"md">>
    /\ outcome.st = "resolved"

\* md and pdf were requested with the registered pdf template: resolved
C28_MatchWitness ==
    /\ LookupCase
    /\ options.templateId = "corp-pdf"
    /\ Requested = <<"md", "pdf">>
    /\ outcome.st = "resolved"
    /\ Keys(outcome.value) = {"md", "pdf"}

(***************************************************************************)
(* The template registry (registry.ts): register awaits the file read, so  *)
(* unregister and clear can run while a register call is in flight.        *)
(***************************************************************************)
MaxRegisterCalls == 2

\* TemplateConfig values: well-formed ones for two ids whose file is there,
\* is missing or cannot be read, and one per validation rule that fails
RegisterConfig(id, name, type, path, file) ==
    [id |-> id, name |-> name, type |-> type, path |-> path, file |-> file]

RegisterConfigs ==
    { RegisterConfig(id, "n", "html", "p", file) :
        id \in {"a", "b"}, file \in {"ok", "missing", "unreadable"} }
    \cup { RegisterConfig("", "n", "html", "p", "ok"),
           RegisterConfig("a", "", "html", "p", "ok"),
           RegisterConfig("a", "n", "bogus", "p", "ok"),
           RegisterConfig("a", "n", "html", "", "ok") }

\* registry.ts:19-39: the checks register makes before it awaits
registerChecks(config) ==
    IF config.id = "" THEN TemplateError("Template ID is required", "")
    ELSE IF config.name = "" THEN TemplateError("Template name is required", config.id)
    ELSE IF config.type \notin {"html", "pdf", "docx"}
         THEN TemplateError("Invalid template type", config.id)
    ELSE IF config.path = "" THEN TemplateError("Template path is required", config.id)
    ELSE IF config.file = "missing" THEN TemplateError("Template file not found", config.id)
    ELSE NoError

\* a register call: its config, where it is (reading: awaiting readFile) and,
\* for the record, whether unregister of its id or clear has run since it was
\* invoked
RegisterCallState(config, st, err, overtaken) ==
    [config |-> config, st |-> st, err |-> err, overtaken |-> overtaken]

\* this.templates.has(id)
templatesHas(r, id) == \E t \in r.templates : t.id = id

\* this.templates.set(id, template)
templatesSet(templates, template) ==
    {t \in templates : t.id # template.id} \cup {template}

\* this.templates.delete(id)
templatesDelete(templates, id) == {t \in templates : t.id # id}

RegistryInit ==
    /\ reg = RegistryState({}, <<>>)
    /\ ConvertIdle
    /\ DetectIdle
    /\ ParseIdle
    /\ EscapeIdle
    /\ WrapperIdle
    /\ ScanIdle
    /\ NormIdle
    /\ SubstIdle

\* register(config) is invoked: it throws from its checks or reaches the await
\* of readFile (registry.ts:16-43)
RegisterInvoked ==
    /\ Len(reg.calls) < MaxRegisterCalls
    /\ \E config \in RegisterConfigs :
           LET err == registerChecks(config)
           IN  reg' = [reg EXCEPT !.calls = Append(@,
                          RegisterCallState(config,
                                            IF err = NoError THEN "reading" ELSE "failed",
                                            err, FALSE))]
    /\ UNCHANGED outsideReg

\* readFile settles: the template is stored, or the call rejects
\* (registry.ts:43-60)
RegisterSettles ==
    /\ \E k \in 1..Len(reg.calls) :
           /\ reg.calls[k].st = "reading"
           /\ LET config == reg.calls[k].config
              IN  IF config.file = "ok"
                  THEN reg' = [reg EXCEPT
                          !.templates = templatesSet(@,
                              Template("template", config.id, config.type, "content")),
                          !.calls[k].st = "done"]
                  ELSE reg' = [reg EXCEPT
                          !.calls[k].st = "failed",
                          !.calls[k].err = TemplateError("Failed to load template", config.id)]
    /\ UNCHANGED outsideReg

\* unregister(id) (registry.ts:81-84)
Unregister ==
    /\ \E id \in {"a", "b"} :
           reg' = [reg EXCEPT
                     !.templates = templatesDelete(@, id),
                     !.calls = [k \in 1..Len(reg.calls) |->
                                   IF reg.calls[k].config.id = id
                                   THEN [reg.calls[k] EXCEPT !.overtaken = TRUE]
                                   ELSE reg.calls[k]]]
    /\ UNCHANGED outsideReg

\* clear() (registry.ts:103-106)
Clear ==
    /\ reg' = [reg EXCEPT
                 !.templates = {},
                 !.calls = [k \in 1..Len(reg.calls) |-> [reg.calls[k] EXCEPT !.overtaken = TRUE]]]
    /\ UNCHANGED outsideReg

RegistryNext == RegisterInvoked \/ RegisterSettles \/ Unregister \/ Clear

RegistrySpec == RegistryInit /\ [][RegistryNext]_vars

\* C29: has(id) holds only if a register call for that id has completed
\* successfully and neither unregister(id) nor clear() has run since that call
\* was invoked: once one of them has returned, a register call that was
\* already in flight does not bring the template back.
C29_RemovedStaysRemoved ==
    \A id \in {"a", "b"} :
        templatesHas(reg, id) =>
            \E k \in 1..Len(reg.calls) :
                /\ reg.calls[k].config.id = id
                /\ reg.calls[k].st = "done"
                /\ ~reg.calls[k].overtaken

\* a register call that fails, in its checks or in the file read, leaves the
\* map as it was
FailedRegisterKeepsMap ==
    [][ (\E k \in 1..Len(reg'.calls) :
            /\ reg'.calls[k].st = "failed"
            /\ (k > Len(reg.calls) \/ reg.calls[k].st # "failed"))
        => reg'.templates = reg.templates ]_vars

\* the only register call for a was in flight when unregister ran, and a is
\* in the registry
C29_TemplateReappeared ==
    /\ Len(reg.calls) = 1
    /\ reg.calls[1].config.id = "a"
    /\ reg.calls[1].overtaken
    /\ reg.calls[1].st = "done"
    /\ templatesHas(reg, "a")

(***************************************************************************)
(* applyTemplate (html.ts:311-329): four String.prototype.replace calls    *)
(* with string patterns, one after the other on the same string.           *)
(***************************************************************************)
MaxValueLen == 1

\* DEFAULT_TEMPLATE (html.ts:9-25)
DEFAULT_TEMPLATE ==
    <<"<head>", "{{META}}", "<title>", "{{TITLE}}", "</title>", "<style>", "{{STYLES}}",
      "</style>", "</head>", "<body>", "{{CONTENT}}", "</body>">>

\* a registered template whose body comes before its head section
BodyFirstTemplate ==
    <<"<body>", "{{CONTENT}}", "</body>", "<title>", "{{TITLE}}", "</title>",
      "{{STYLES}}", "{{META}}">>

\* DEFAULT_STYLES (html.ts:30-119)
DEFAULT_STYLES == <<"css">>

\* what document text and metadata strings can hold: a letter, text that
\* looks like a placeholder, and the replacement pattern for the matched text
ValuePieces == {"a", "{{CONTENT}}", "{{TITLE}}", "{{STYLES}}", "{{META}}", "$&"}

Values == SeqsUpTo(ValuePieces, MaxValueLen)

\* the first index of a piece in a string, 0 if there is none
RECURSIVE IndexOf(_, _, _)
IndexOf(text, piece, from) ==
    IF from > Len(text) THEN 0
    ELSE IF text[from] = piece THEN from
    ELSE IndexOf(text, piece, from + 1)

\* the replacement string as replace inserts it: $& stands for the match
Expand(replacement, pattern) ==
    [k \in 1..Len(replacement) |-> IF replacement[k] = "$&" THEN pattern ELSE replacement[k]]

\* text.replace(pattern, replacement) with a string pattern: the first
\* occurrence only, the inserted text is not scanned again
replace(text, pattern, replacement) ==
    LET at == IndexOf(text, pattern, 1)
    IN  IF at = 0 THEN text
        ELSE SubSeq(text, 1, at - 1) \o Expand(replacement, pattern)
             \o SubSeq(text, at + 1, Len(text))

\* metadata?.title || 'Document'
TitleOf(title) == IF title = <<>> THEN <<"Document">> ELSE title

\* generateMetaTags (html.ts:334-352) for a metadata object with at most an
\* author
generateMetaTags(author) ==
    IF author = <<>> THEN <<>>
    ELSE <<"<meta name=author content=">> \o escapeHtml(author) \o <<">">>

SubstInit ==
    /\ \E template \in {DEFAULT_TEMPLATE, BodyFirstTemplate},
          body \in Values, title \in Values, author \in {<<>>, <<"a">>} :
           subst = SubstState(template, <<"<p>">> \o escapeHtml(body) \o <<"</p>">>,
                              title, author, 0, template)
    /\ ConvertIdle
    /\ DetectIdle
    /\ ParseIdle
    /\ EscapeIdle
    /\ WrapperIdle
    /\ ScanIdle
    /\ NormIdle
    /\ RegIdle

\* html.ts:315
ReplaceContent ==
    /\ subst.step = 0
    /\ Len(subst.template) > 0
    /\ subst' = [subst EXCEPT !.step = 1,
                              !.result = replace(@, "{{CONTENT}}", subst.content)]
    /\ UNCHANGED outsideSubst

\* html.ts:318-319
ReplaceTitle ==
    /\ subst.step = 1
    /\ subst' = [subst EXCEPT !.step = 2,
                              !.result = replace(@, "{{TITLE}}", escapeHtml(TitleOf(subst.title)))]
    /\ UNCHANGED outsideSubst

\* html.ts:322
ReplaceStyles ==
    /\ subst.step = 2
    /\ subst' = [subst EXCEPT !.step = 3,
                              !.result = replace(@, "{{STYLES}}", DEFAULT_STYLES)]
    /\ UNCHANGED outsideSubst

\* html.ts:325-326
ReplaceMeta ==
    /\ subst.step = 3
    /\ subst' = [subst EXCEPT !.step = 4,
                              !.result = replace(@, "{{META}}", generateMetaTags(subst.author))]
    /\ UNCHANGED outsideSubst

SubstNext == ReplaceContent \/ ReplaceTitle \/ ReplaceStyles \/ ReplaceMeta

SubstSpec == SubstInit /\ [][SubstNext]_vars

\* the value that belongs in the place of a piece of the template
OwnValue(piece) ==
    IF piece = "{{CONTENT}}" THEN subst.content
    ELSE IF piece = "{{TITLE}}" THEN escapeHtml(TitleOf(subst.title))
    ELSE IF piece = "{{STYLES}}" THEN DEFAULT_STYLES
    ELSE IF piece = "{{META}}" THEN generateMetaTags(subst.author)
    ELSE <<piece>>

\* the template with each placeholder replaced by its own value, the values
\* put in as they are
RECURSIVE Substituted(_)
Substituted(template) ==
    IF Len(template) = 0 THEN <<>>
    ELSE OwnValue(template[1]) \o Substituted(Tail(template))

\* C30: when applyTemplate returns, the document is the template with each of
\* its four placeholders replaced by its own value once, and every value is in
\* the document as it was handed in: placeholder-looking text inside the
\* content or the title is neither substituted nor takes the substitution
\* meant for the template's own placeholder.
C30_NonRecursiveSubstitution ==
    subst.step = 4 => subst.result = Substituted(subst.template)

\* with the default template, a title that reads {{STYLES}} has received the
\* style sheet and the template's own placeholder is still there
C30_TitleTakesStyles ==
    /\ subst.step = 4
    /\ subst.template = DEFAULT_TEMPLATE
    /\ subst.title = <<"{{STYLES}}">>
    /\ subst.result[IndexOf(subst.result, "<title>", 1) + 1] = "css"
    /\ subst.result[IndexOf(subst.result, "<style>", 1) + 1] = "{{STYLES}}"

\* plain content and a plain title end up in their places
C30_PlainValues ==
    /\ subst.step = 4
    /\ subst.template = DEFAULT_TEMPLATE
    /\ subst.title = <<"a">>
    /\ subst.result = Substituted(DEFAULT_TEMPLATE)

====
